---- MODULE Spec2Model ----
(***************************************************************************)
(* font-sync: the reconciliation engine (sync / clean commands), its      *)
(* classification strategies and the state they read and write.           *)
(*                                                                         *)
(* Sizes are in units of 0.01 MB, the precision of info["size_mb"]         *)
(* (font_manager.py:359 rounds to two decimals).  A file's content is an   *)
(* abstract value; Sha256 is injective on the contents of the model.       *)
(* The installed_at timestamp of a manifest entry is not modelled.         *)
(***************************************************************************)
EXTENDS Integers, Sequences, FiniteSets, TLC

\* ------------------------------------------------------------------ bounds

\* Largest number of font files present in the sync folder at one time.
MaxFiles == 2
\* Largest number of calculate_hash calls followed on one file.
MaxCalls == 3

\* ------------------------------------------------------- program constants

\* sync.py:134  use_parallel = len(all_source_fonts) > 50
ParallelThreshold == 50
\* sync.py:236  batch_process(..., batch_size=50)
SyncBatchSize == 50
\* parallel.py:18  ParallelConfig.chunk_size
ChunkSize == 50

\* --------------------------------------------------------------- universe

None == "None"

\* A path of the sync folder: the sub-directory and the file name
\* (Path.name).  Two directories hold a file of the same name.
PA == [dir |-> "a", name |-> "A.otf"]
PB == [dir |-> "a", name |-> "B.otf"]
PC == [dir |-> "b", name |-> "A.otf"]

\* The paths in lexicographic order, the order sorted() gives them.
PathOrder == <<PA, PB, PC>>
Paths == {PathOrder[i] : i \in 1..Len(PathOrder)}
Names == {p.name : p \in Paths}

Contents == {"empty", "v1", "v2"}

\* What is at a path: nothing, a readable file, a file that cannot be
\* opened (EACCES: is_file_locked is true), or a file whose read fails with
\* another I/O error.
NoFile == [content |-> "none", cond |-> "absent"]
FileStates ==
    {NoFile}
    \cup {[content |-> c, cond |-> "ok"] : c \in Contents}
    \cup {[content |-> "v1", cond |-> k] : k \in {"locked", "ioerr"}}

Present(fs) == {p \in DOMAIN fs : fs[p].cond # "absent"}

\* The snapshots of the sync folder the model draws from.
Sources == {fs \in [Paths -> FileStates] : Cardinality(Present(fs)) <= MaxFiles}

Sha256(c) ==
    CASE c = "empty" -> "h0"
      [] c = "v1" -> "h1"
      [] c = "v2" -> "h2"
      [] OTHER -> None

\* st_size; round(size / 2^20, 2) in units of 0.01 MB.
SizeMb(c) ==
    CASE c = "empty" -> 0
      [] c = "v1" -> 10
      [] c = "v2" -> 20
      [] OTHER -> 0

Min(a, b) == IF a <= b THEN a ELSE b

\* The elements of a list.
Range(fonts) == {fonts[i] : i \in 1..Len(fonts)}

RECURSIVE Flatten(_)
Flatten(ss) == IF ss = <<>> THEN <<>> ELSE Head(ss) \o Flatten(Tail(ss))

\* The sum of s[lo..hi].
RECURSIVE SumRange(_, _, _)
SumRange(s, lo, hi) ==
    IF lo > hi THEN 0
    ELSE IF lo = hi THEN s[lo]
    ELSE LET mid == (lo + hi) \div 2
         IN SumRange(s, lo, mid) + SumRange(s, mid + 1, hi)

SeqSum(s) == SumRange(s, 1, Len(s))

\* ------------------------------------------------------------ filesystem

\* utils.is_file_locked: false when the file does not exist, true when
\* opening it raises EACCES / EPERM / EBUSY.
IsFileLocked(fs, p) == fs[p].cond = "locked"

\* utils.is_cloud_storage_syncing as read for a scanned path; a scanned path
\* is flagged only when the flag changed after the scan.
IsCloudStorageSyncing(fs, p) == fs[p].cond = "syncing"

\* FontManager.get_font_info: the fields the sync command reads.  A missing
\* file gives the error dictionary, which has no is_locked / is_syncing key.
GetFontInfo(fs, p) ==
    IF fs[p].cond = "absent"
    THEN [name |-> p.name, size_mb |-> 0, is_locked |-> FALSE,
          is_syncing |-> FALSE, error |-> TRUE]
    ELSE [name |-> p.name, size_mb |-> SizeMb(fs[p].content),
          is_locked |-> IsFileLocked(fs, p),
          is_syncing |-> IsCloudStorageSyncing(fs, p), error |-> FALSE]

\* FontManager.calculate_hash, after its retries: raises when the file is
\* missing, stays locked or cannot be read; otherwise the content's digest.
CalculateHash(fs, p) ==
    IF fs[p].cond \in {"absent", "locked", "ioerr"}
    THEN [raised |-> TRUE, hash |-> None]
    ELSE [raised |-> FALSE, hash |-> Sha256(fs[p].content)]

\* FontManager.scan_fonts in batch mode, the batches concatenated as
\* sync.py:84-85 does: every font file present, in sorted order.
ScanFonts(fs) == SelectSeq(PathOrder, LAMBDA p : p \in Present(fs))

\* -------------------------------------------------- manifest (ConfigManager)

\* ConfigManager.get_installed_fonts: name -> stored hash.
EmptyManifest == <<>>

\* An insert that leaves an existing entry as it is.
AddInstalledFontKeepsOld(m, name, h) ==
    [n \in (DOMAIN m) \cup {name} |-> IF n \in DOMAIN m THEN m[n] ELSE h]

\* ConfigManager.add_installed_font: upsert name -> hash.
AddInstalledFont(m, name, h) ==
    [n \in (DOMAIN m) \cup {name} |-> IF n = name THEN h ELSE m[n]]

\* ConfigManager.remove_installed_font.
RemoveInstalledFont(m, name) == [n \in (DOMAIN m) \ {name} |-> m[n]]

\* --------------------------------------------------------- classification

\* A comparison that looks at the name only.
DiffActionByName(installed, name, h) ==
    IF name \notin DOMAIN installed THEN "install" ELSE "up-to-date"

\* A comparison that finds no font up to date.
DiffActionNeverUpToDate(installed, name, h) ==
    IF name \notin DOMAIN installed THEN "install" ELSE "update"

\* The comparison both strategies make once a hash is known
\* (sync.py:182-191 and 217-224).
DiffAction(installed, name, h) ==
    IF name \notin DOMAIN installed THEN "install"
    ELSE IF installed[name] # h THEN "update"
    ELSE "up-to-date"

\* A check_font_diff that does not look at is_syncing.
CheckFontDiffNoSyncingCheck(fs, installed, p) ==
    LET info == GetFontInfo(fs, p)
        base == [path |-> p, action |-> "none", hash |-> None,
                 size_mb |-> info.size_mb]
        h == CalculateHash(fs, p)
    IN IF info.is_locked THEN base
       ELSE IF h.raised THEN base
       ELSE [base EXCEPT !.hash = h.hash,
                         !.action = DiffAction(installed, p.name, h.hash)]

\* sync_command.check_font_diff: the result dictionary for one path.
CheckFontDiff(fs, installed, p) ==
    LET info == GetFontInfo(fs, p)
        base == [path |-> p, action |-> "none", hash |-> None,
                 size_mb |-> info.size_mb]
        h == CalculateHash(fs, p)
    IN IF info.is_locked THEN base
       ELSE IF info.is_syncing THEN base
       ELSE IF h.raised THEN base
       ELSE [base EXCEPT !.hash = h.hash,
                         !.action = DiffAction(installed, p.name, h.hash)]

\* utils.batch_process: the items in slices of batch_size, each item's
\* result appended in order.  process_func[item] is what the callback
\* returns for the item.
BatchProcess(items, process_func, batch_size) ==
    LET total == Len(items)
        nb == (total + batch_size - 1) \div batch_size
        Batch(k) == SubSeq(items, (k - 1) * batch_size + 1,
                           Min(k * batch_size, total))
    IN Flatten([k \in 1..nb |-> [j \in 1..Len(Batch(k)) |-> process_func[Batch(k)[j]]]])

\* sync.py:240-249: the result dictionaries sorted into the three lists, each
\* list in the order of the results; the sizes of the install and update
\* results summed.
SortResults(results) ==
    LET inst == SelectSeq(results, LAMBDA r : r.action = "install")
        upd == SelectSeq(results, LAMBDA r : r.action = "update")
        same == SelectSeq(results, LAMBDA r : r.action = "up-to-date")
        sized == SelectSeq(results, LAMBDA r : r.action \in {"install", "update"})
    IN [sync |-> [j \in 1..Len(inst) |-> <<inst[j].path, inst[j].hash>>],
        update |-> [j \in 1..Len(upd) |-> <<upd[j].path, upd[j].hash>>],
        up_to_date |-> [j \in 1..Len(same) |-> same[j].path],
        total_size_mb |-> SeqSum([j \in 1..Len(sized) |-> sized[j].size_mb])]

\* The sequential batch strategy (sync.py:192-249).
ClassifySequential(fs, installed, items) ==
    SortResults(BatchProcess(items,
                             [p \in {items[i] : i \in 1..Len(items)} |->
                                CheckFontDiff(fs, installed, p)],
                             SyncBatchSize))

\* ParallelProcessor.process_batch: the items in chunks of chunk_size; the
\* results of a chunk are appended in the order the tasks complete, order[k]
\* being the completion order of chunk k (a permutation of its indices).
\* process_func[item] is the task's outcome (raised, value), error_handler[item]
\* the fallback result of a task that raised.
ProcessBatch(items, process_func, error_handler, order) ==
    LET total == Len(items)
        nb == (total + ChunkSize - 1) \div ChunkSize
        Batch(k) == SubSeq(items, (k - 1) * ChunkSize + 1,
                           Min(k * ChunkSize, total))
        One(item) == LET r == process_func[item]
                     IN IF r.raised THEN <<FALSE, error_handler[item]>>
                        ELSE <<TRUE, r.value>>
    IN Flatten([k \in 1..nb |->
                  [j \in 1..Len(Batch(k)) |-> One(Batch(k)[order[k][j]])]])

\* calculate_hashes_parallel without its error_handler: the default failure
\* result of process_batch has no "path" and is left out of the mapping.
CalculateHashesParallelNoHandler(fs, items, order) ==
    LET paths == {items[i] : i \in 1..Len(items)}
        kept == {q \in paths : ~CalculateHash(fs, q).raised}
    IN [q \in kept |-> CalculateHash(fs, q).hash]

\* ParallelProcessor.calculate_hashes_parallel: path -> hash or None, built
\* from the result list; a later result for a path overwrites an earlier one.
CalculateHashesParallel(fs, items, order) ==
    LET paths == {items[i] : i \in 1..Len(items)}
        results == ProcessBatch(
            items,
            [p \in paths |-> [raised |-> CalculateHash(fs, p).raised,
                              value |-> [path |-> p,
                                         hash |-> CalculateHash(fs, p).hash]]],
            [p \in paths |-> [path |-> p, hash |-> None]],
            order)
        Last(q) == CHOOSE i \in 1..Len(results) :
                     /\ results[i][2].path = q
                     /\ \A j \in (i + 1)..Len(results) : results[j][2].path # q
    IN [q \in {results[i][2].path : i \in 1..Len(results)} |->
          results[Last(q)][2].hash]

\* A parallel strategy whose second loop goes through the paths in the order
\* their hashing tasks completed.
ClassifyParallelAsCompleted(fs, installed, items, order) ==
    LET hash_results == CalculateHashesParallel(fs, items, order)
        nb == (Len(items) + ChunkSize - 1) \div ChunkSize
        Chunk(k) == SubSeq(items, (k - 1) * ChunkSize + 1,
                           Min(k * ChunkSize, Len(items)))
        completed == Flatten([k \in 1..nb |->
                            [j \in 1..Len(Chunk(k)) |-> Chunk(k)[order[k][j]]]])
        FontHash(p) == IF p \in DOMAIN hash_results THEN hash_results[p] ELSE None
        Skipped(p) == \/ GetFontInfo(fs, p).is_locked
                      \/ GetFontInfo(fs, p).is_syncing
                      \/ FontHash(p) = None
        Act(p) == DiffAction(installed, p.name, FontHash(p))
        inst == SelectSeq(completed, LAMBDA p : ~Skipped(p) /\ Act(p) = "install")
        upd == SelectSeq(completed, LAMBDA p : ~Skipped(p) /\ Act(p) = "update")
        same == SelectSeq(completed, LAMBDA p : ~Skipped(p) /\ Act(p) = "up-to-date")
        sized == SelectSeq(completed, LAMBDA p : ~Skipped(p) /\ Act(p) # "up-to-date")
    IN [sync |-> [j \in 1..Len(inst) |-> <<inst[j], FontHash(inst[j])>>],
        update |-> [j \in 1..Len(upd) |-> <<upd[j], FontHash(upd[j])>>],
        up_to_date |-> [j \in 1..Len(same) |-> same[j]],
        total_size_mb |-> SeqSum([j \in 1..Len(sized) |->
                                    GetFontInfo(fs, sized[j]).size_mb])]

\* The parallel strategy (sync.py:145-191): hashes first, then the loop over
\* the scanned paths in scan order, appending to the three lists and summing
\* the sizes of the install and update candidates.
ClassifyParallel(fs, installed, items, order) ==
    LET hash_results == CalculateHashesParallel(fs, items, order)
        FontHash(p) == IF p \in DOMAIN hash_results THEN hash_results[p] ELSE None
        Skipped(p) == \/ GetFontInfo(fs, p).is_locked
                      \/ GetFontInfo(fs, p).is_syncing
                      \/ FontHash(p) = None
        Act(p) == DiffAction(installed, p.name, FontHash(p))
        inst == SelectSeq(items, LAMBDA p : ~Skipped(p) /\ Act(p) = "install")
        upd == SelectSeq(items, LAMBDA p : ~Skipped(p) /\ Act(p) = "update")
        same == SelectSeq(items, LAMBDA p : ~Skipped(p) /\ Act(p) = "up-to-date")
        sized == SelectSeq(items, LAMBDA p : ~Skipped(p) /\ Act(p) # "up-to-date")
    IN [sync |-> [j \in 1..Len(inst) |-> <<inst[j], FontHash(inst[j])>>],
        update |-> [j \in 1..Len(upd) |-> <<upd[j], FontHash(upd[j])>>],
        up_to_date |-> [j \in 1..Len(same) |-> same[j]],
        total_size_mb |-> SeqSum([j \in 1..Len(sized) |->
                                    GetFontInfo(fs, sized[j]).size_mb])]

\* The completion orders the model draws from: one permutation per chunk.
Perms(n) == {f \in [1..n -> 1..n] : \A i, j \in 1..n : i # j => f[i] # f[j]}

Reverse(n) == [i \in 1..n |-> n + 1 - i]

\* ------------------------------------------------------- install directory

\* utils.get_safe_filename on a name that passed validation (no invalid
\* character is left to replace): leading and trailing blanks and dots are
\* stripped.
SafeName(name) ==
    CASE name = " A.otf" -> "A.otf"
      [] name = "" -> "unnamed_font"
      [] OTHER -> name

\* The free space, in units of 0.01 MB, that a statvfs of the fonts volume
\* may report: none, the size of one small font without the 10 % margin,
\* exactly 1.1 times two large fonts.
FreeChoices == {0, 10, 44}

\* The 10 % margin both callers of check_disk_space add (sync.py:262,
\* font_manager.py:233).  Every size of the model is a multiple of 0.10 MB,
\* so the division is exact.
WithMargin(size_mb) == (11 * size_mb) \div 10

\* A precheck that takes any free space at all for enough.
CheckDiskSpaceAnyFree(dir_exists, free, required_mb) ==
    IF dir_exists
    THEN [free_mb |-> free, has_enough_space |-> free > 0]
    ELSE [free_mb |-> -1, has_enough_space |-> TRUE]

\* utils.check_disk_space: statvfs raises when the directory does not exist,
\* and the sentinel "assume sufficient" is returned; otherwise
\* free_mb >= required_mb.
CheckDiskSpace(dir_exists, free, required_mb) ==
    IF dir_exists
    THEN [free_mb |-> free, has_enough_space |-> free >= required_mb]
    ELSE [free_mb |-> -1, has_enough_space |-> TRUE]

\* What the environment does to one copy: nothing, the source is locked
\* until the 30 s wait times out, the destination cannot be opened for
\* writing, or the write fails after the destination was opened.
Faults == {"none", "locked", "perm", "io"}

\* The faults the sync model draws from.
SyncFaults == {"none", "locked", "perm"}

Exc(msg, hint) == [msg |-> msg, hint |-> hint]

PutFile(inst, name, c) ==
    [exists |-> TRUE,
     files |-> [n \in (DOMAIN inst.files) \cup {name} |->
                  IF n = name THEN c ELSE inst.files[n]]]

\* A copy_font that asks for the size of the file without the margin.
CopyFontNoMargin(fs, inst, p, free, fault) ==
    LET f == fs[p]
        Raise(e) == [ok |-> FALSE, inst |-> inst, exc |-> e]
        dst == SafeName(p.name)
        disk_info == CheckDiskSpace(inst.exists, free, SizeMb(f.content))
        made == [inst EXCEPT !.exists = TRUE]
    IN IF f.cond = "absent" THEN Raise(Exc("FileNotFoundError", None))
       ELSE IF SizeMb(f.content) = 0
            THEN Raise(Exc("FontValidationError: empty file", "file may be damaged"))
       ELSE IF f.cond = "locked" \/ fault = "locked"
            THEN Raise(Exc("FileLockedError", "close the application using the file"))
       ELSE IF ~disk_info.has_enough_space
            THEN Raise(Exc("IOError: not enough disk space", None))
       ELSE IF fault = "perm"
            THEN [ok |-> FALSE, inst |-> made,
                  exc |-> Exc("TypeError: PermissionError() takes no keyword arguments", None)]
       ELSE IF f.cond = "ioerr"
            THEN [ok |-> FALSE, inst |-> made, exc |-> Exc("IOError: copy failed", None)]
       ELSE IF fault = "io"
            THEN [ok |-> FALSE, inst |-> PutFile(inst, dst, "partial"),
                  exc |-> Exc("IOError: copy failed", None)]
       ELSE [ok |-> TRUE, inst |-> PutFile(inst, dst, f.content), exc |-> Exc(None, None)]

\* FontManager.copy_font(src, validate=True): the install directory after
\* the call and the exception raised, if any.
CopyFont(fs, inst, p, free, fault) ==
    LET f == fs[p]
        Raise(e) == [ok |-> FALSE, inst |-> inst, exc |-> e]
        dst == SafeName(p.name)
        disk_info == CheckDiskSpace(inst.exists, free, WithMargin(SizeMb(f.content)))
        made == [inst EXCEPT !.exists = TRUE]
    IN IF f.cond = "absent" THEN Raise(Exc("FileNotFoundError", None))
       ELSE IF SizeMb(f.content) = 0
            THEN Raise(Exc("FontValidationError: empty file", "file may be damaged"))
       ELSE IF f.cond = "locked" \/ fault = "locked"
            THEN Raise(Exc("FileLockedError", "close the application using the file"))
       ELSE IF ~disk_info.has_enough_space
            THEN Raise(Exc("IOError: not enough disk space", None))
       ELSE IF fault = "perm"
            THEN [ok |-> FALSE, inst |-> made,
                  exc |-> Exc("TypeError: PermissionError() takes no keyword arguments", None)]
       ELSE IF f.cond = "ioerr"
            THEN [ok |-> FALSE, inst |-> made, exc |-> Exc("IOError: copy failed", None)]
       ELSE IF fault = "io"
            THEN [ok |-> FALSE, inst |-> PutFile(inst, dst, "partial"),
                  exc |-> Exc("IOError: copy failed", None)]
       ELSE [ok |-> TRUE, inst |-> PutFile(inst, dst, f.content), exc |-> Exc(None, None)]

\* A test that looks for the raw name only.
IsFontInstalledRawOnly(inst, name) == name \in DOMAIN inst.files

\* FontManager.is_font_installed: the sanitized name or the raw name exists.
IsFontInstalled(inst, name) ==
    SafeName(name) \in DOMAIN inst.files \/ name \in DOMAIN inst.files

\* A lookup that tries the raw name first.
GetInstalledFontPathRawFirst(inst, name) ==
    IF name \in DOMAIN inst.files THEN name
    ELSE IF SafeName(name) \in DOMAIN inst.files THEN SafeName(name)
    ELSE None

\* FontManager.get_installed_font_path: sanitized name first, raw second.
GetInstalledFontPath(inst, name) ==
    IF SafeName(name) \in DOMAIN inst.files THEN SafeName(name)
    ELSE IF name \in DOMAIN inst.files THEN name
    ELSE None

\* FontManager.remove_font when the unlink succeeds.
RemoveFont(inst, name) ==
    LET at == GetInstalledFontPath(inst, name)
    IN IF at = None THEN inst
       ELSE [inst EXCEPT !.files = [n \in (DOMAIN inst.files) \ {at} |-> inst.files[n]]]

\* sync.py:309-312: the error list entry "name: message (hint)".
ErrorEntry(name, e) ==
    <<name, ": ", e.msg>> \o (IF e.hint # None THEN <<" (", e.hint, ")">> ELSE <<>>)

\* sync._output_json: the machine-readable summary.
OutputJson(success, added, updated, skipped, errs) ==
    [success |-> success, added |-> added, updated |-> updated,
     skipped |-> skipped, errors |-> errs]

\* ------------------------------------------------------------------ state

VARIABLES
    source,            \* the sync folder: path -> what is there
    persisted,         \* ~/.fontsync/config.json: readable?, installed_fonts
    install_dir,       \* ~/Library/Fonts: exists?, file name -> content
    pc,                \* where the running command is
    config,            \* ConfigManager.config["installed_fonts"] in memory
    all_source_fonts,  \* the scanned paths
    fonts_to_sync,     \* <<path, hash>> to install
    fonts_to_update,   \* <<path, hash>> to update
    fonts_up_to_date,  \* paths that need nothing
    total_size_mb,     \* summed size of the install and update candidates
    disk_info,         \* result of the disk space precheck
    applied,           \* candidates the apply loops have gone through
    added_count,
    updated_count,
    errors,
    summary,           \* what _output_json printed; ended: how the run ended
    loaded,            \* history: installed_fonts as loaded by this run
    install_dir0,      \* history: the install directory when the run began
    copy_ok,           \* history: for each candidate gone through, did its copy succeed
    gate_short,        \* history: the volume had less free space than the precheck required
    prev               \* history: how the previous sync run on this source ended

VARIABLES
    st_in,             \* strategy comparison: snapshot, scanned paths, manifest
    st_out             \* strategy comparison: result of each strategy

runVars == <<config, all_source_fonts, fonts_to_sync, fonts_to_update,
             fonts_up_to_date, total_size_mb, disk_info, applied,
             added_count, updated_count, errors, summary, loaded,
             install_dir0, copy_ok, gate_short>>
syncVars == <<source, persisted, install_dir, pc, prev, runVars>>
stratVars == <<st_in, st_out>>

VARIABLES
    rt_in,             \* retry: the decorator's arguments and what each call will do
    rt                 \* retry: the wrapper's locals and how the call ended

retryVars == <<rt_in, rt>>

VARIABLES
    clock,             \* cache: time.time(), in hours
    ttl_hours,         \* cache: FontCache.ttl_hours
    file_stat,         \* cache: (st_size, st_mtime) of the cached path
    memory_cache,      \* cache: FontCache._memory_cache, key -> entry
    hash_cache_file,   \* cache: the document hash_cache.json
    info_cache_file,   \* cache: the document info_cache.json
    cache_last         \* cache: the last call, its argument, what it returned
                       \*   (removed: the pair cleanup_expired returns) or
                       \*   raised, and the file's (st_size, st_mtime) at the
                       \*   latest set_hash

cacheVars == <<clock, ttl_hours, file_stat, memory_cache, hash_cache_file,
               info_cache_file, cache_last>>

VARIABLES
    pb_in,             \* process_batch: the items, what each worker does, the
                       \*   ParallelConfig and the caller's error_handler
    pb                 \* process_batch: its locals, the futures, the workers'
                       \*   locals and the thread that took the last step

pbVars == <<pb_in, pb>>

VARIABLES
    g_in,              \* filesystem guards: the call and its arguments
    g_out              \* filesystem guards: what the call returned

guardVars == <<g_in, g_out>>

VARIABLES
    scan_in,             \* scan_fonts: the folder as it is walked, yield_batch
    scan                 \* scan_fonts: the loop position, fonts, what was
                       \*   returned or yielded

scanVars == <<scan_in, scan>>

VARIABLES
    fm_in,             \* copy_font / remove_font: the call and its environment
    fm                 \* copy_font / remove_font: the install directory and
                       \*   how the call ended

fmVars == <<fm_in, fm>>

VARIABLES
    cl_in,             \* clean: the folder, the manifest, the mode
    cl                 \* clean: its locals, the manifest, the install directory

cleanVars == <<cl_in, cl>>

VARIABLES
    hc_in,             \* calculate_hash alone: use_cache
    hc                 \* calculate_hash alone: the file, the cache, the value
                       \*   returned

hashVars == <<hc_in, hc>>

VARIABLES
    im_in,             \* import: the fonts to import
    im                 \* import: the sync folder, the loop position, counters

importVars == <<im_in, im>>

VARIABLES
    lf_in,             \* sync and clean in turn: the source file
    lf                 \* sync and clean in turn: manifest, install directory,
                       \*   what the last command did

lifeVars == <<lf_in, lf>>

moreVars == <<hashVars, importVars, lifeVars>>
baseVars == <<retryVars, cacheVars, pbVars, syncVars, stratVars>>
firstUnitVars == <<guardVars, scanVars, fmVars, cleanVars>>
unitVars == <<firstUnitVars, moreVars>>
coreVars == <<baseVars, moreVars>>
auxVars == <<retryVars, cacheVars, pbVars, unitVars>>
vars == <<syncVars, stratVars, auxVars>>

NoDiskInfo == [free_mb |-> -1, has_enough_space |-> TRUE]
NoSummary == [ended |-> "running", out |-> OutputJson(TRUE, 0, 0, 0, <<>>)]
NoInstallDir == [exists |-> FALSE, files |-> <<>>]
Corrupt == [ok |-> FALSE, fonts |-> EmptyManifest]

\* The values of the run's variables when no command is running.
RunIdle ==
    /\ config = EmptyManifest
    /\ all_source_fonts = <<>>
    /\ fonts_to_sync = <<>>
    /\ fonts_to_update = <<>>
    /\ fonts_up_to_date = <<>>
    /\ total_size_mb = 0
    /\ disk_info = NoDiskInfo
    /\ applied = 0
    /\ added_count = 0
    /\ updated_count = 0
    /\ errors = <<>>
    /\ summary = NoSummary
    /\ loaded = EmptyManifest
    /\ install_dir0 = NoInstallDir
    /\ copy_ok = <<>>
    /\ gate_short = FALSE

\* After `font-sync init`: ConfigManager.initialize_config wrote an empty
\* installed_fonts; the fonts directory may or may not exist yet.
SyncInit ==
    /\ source \in Sources
    /\ persisted = [ok |-> TRUE, fonts |-> EmptyManifest]
    /\ install_dir \in {NoInstallDir, [exists |-> TRUE, files |-> <<>>]}
    /\ pc = "idle"
    /\ prev = "none"
    /\ RunIdle

\* The run's variables back to their idle values.
RunReset ==
    /\ config' = EmptyManifest
    /\ all_source_fonts' = <<>>
    /\ fonts_to_sync' = <<>>
    /\ fonts_to_update' = <<>>
    /\ fonts_up_to_date' = <<>>
    /\ total_size_mb' = 0
    /\ disk_info' = NoDiskInfo
    /\ applied' = 0
    /\ added_count' = 0
    /\ updated_count' = 0
    /\ errors' = <<>>
    /\ summary' = NoSummary
    /\ loaded' = EmptyManifest
    /\ install_dir0' = NoInstallDir
    /\ copy_ok' = <<>>
    /\ gate_short' = FALSE

\* The candidates of the apply phase in the order do_sync visits them.
Candidates == fonts_to_sync \o fonts_to_update

\* sync.py:134
UseParallel(items) == Len(items) > ParallelThreshold

\* sync.py:298-325: the order in which do_sync goes through the candidates
\* of a classification, the install loop before the update loop.
ApplyOrder(r) == r.sync \o r.update

\* sync.py:252
TotalToSync == Len(fonts_to_sync) + Len(fonts_to_update)

\* Largest input whose completion orders are all enumerated; the chunks of a
\* longer input all complete in submission order or all in reverse.
MaxPermuted == 3

NumChunks(total) == (total + ChunkSize - 1) \div ChunkSize
ChunkLen(total, k) == Min(k * ChunkSize, total) - (k - 1) * ChunkSize

\* concurrent.futures.as_completed: a completion order for every chunk.
CompletionOrders(total) ==
    LET nb == NumChunks(total)
    IN IF total <= MaxPermuted
       THEN {[k \in 1..nb |-> f] : f \in Perms(total)}
       ELSE {[k \in 1..nb |-> [i \in 1..ChunkLen(total, k) |-> i]],
             [k \in 1..nb |-> Reverse(ChunkLen(total, k))]}

\* sync.py:134-249: the strategy chosen by the number of scanned paths.
Classify(fs, installed, items, order) ==
    IF UseParallel(items) THEN ClassifyParallel(fs, installed, items, order)
    ELSE ClassifySequential(fs, installed, items)

\* ConfigManager.save_config: the document is rewritten as a whole; the
\* write may fail before the file is opened (nothing changes) or after it
\* was opened for writing (the document is left truncated).
SaveOutcomes == {"ok", "unwritten", "truncated"}
SaveConfig(doc, m, outcome) ==
    CASE outcome = "ok" -> [ok |-> TRUE, fonts |-> m]
      [] outcome = "truncated" -> Corrupt
      [] OTHER -> doc

\* ---------------------------------------------------------- sync command

\* sync.py:57-64: load_config raises on an unreadable document.
SyncLoadFails ==
    /\ pc = "idle"
    /\ ~persisted.ok
    /\ pc' = "done"
    /\ summary' = [ended |-> "load_failed",
                   out |-> OutputJson(FALSE, 0, 0, 0, <<<<"config load failed">>>>)]
    /\ UNCHANGED <<source, persisted, install_dir, prev, config, all_source_fonts,
                   fonts_to_sync, fonts_to_update, fonts_up_to_date, total_size_mb,
                   disk_info, applied, added_count, updated_count, errors, loaded,
                   install_dir0, copy_ok, gate_short, stratVars, auxVars>>

\* sync.py:109-114: nothing was scanned.
SyncNoFonts ==
    /\ pc = "idle"
    /\ persisted.ok
    /\ ScanFonts(source) = <<>>
    /\ pc' = "done"
    /\ config' = persisted.fonts
    /\ loaded' = persisted.fonts
    /\ install_dir0' = install_dir
    /\ summary' = [ended |-> "no_fonts", out |-> OutputJson(TRUE, 0, 0, 0, <<>>)]
    /\ UNCHANGED <<source, persisted, install_dir, prev, all_source_fonts,
                   fonts_to_sync, fonts_to_update, fonts_up_to_date, total_size_mb,
                   disk_info, applied, added_count, updated_count, errors,
                   copy_ok, gate_short, stratVars, auxVars>>

\* sync.py:56-249: load, scan, classify.
SyncClassify ==
    /\ pc = "idle"
    /\ persisted.ok
    /\ LET items == ScanFonts(source)
       IN /\ items # <<>>
          /\ \E order \in (IF UseParallel(items) THEN CompletionOrders(Len(items))
                           ELSE {<<>>}) :
               LET sets == Classify(source, persisted.fonts, items, order)
               IN /\ fonts_to_sync' = sets.sync
                  /\ fonts_to_update' = sets.update
                  /\ fonts_up_to_date' = sets.up_to_date
                  /\ total_size_mb' = sets.total_size_mb
          /\ all_source_fonts' = items
    /\ config' = persisted.fonts
    /\ loaded' = persisted.fonts
    /\ install_dir0' = install_dir
    /\ pc' = "classified"
    /\ UNCHANGED <<source, persisted, install_dir, prev, disk_info, applied,
                   added_count, updated_count, errors, summary, copy_ok, gate_short, stratVars, auxVars>>

\* An early exit that saves the manifest on its way out.
SyncNothingToDoSaves ==
    /\ pc = "classified"
    /\ TotalToSync = 0
    /\ pc' = "done"
    /\ \E outcome \in SaveOutcomes : persisted' = SaveConfig(persisted, config, outcome)
    /\ summary' = [ended |-> "nothing_to_do",
                   out |-> OutputJson(TRUE, 0, 0, Len(fonts_up_to_date), <<>>)]
    /\ UNCHANGED <<source, install_dir, prev, config, all_source_fonts,
                   fonts_to_sync, fonts_to_update, fonts_up_to_date, total_size_mb,
                   disk_info, applied, added_count, updated_count, errors, loaded,
                   install_dir0, copy_ok, gate_short, stratVars, auxVars>>

\* sync.py:251-259: no install and no update candidate.
SyncNothingToDo ==
    /\ pc = "classified"
    /\ TotalToSync = 0
    /\ pc' = "done"
    /\ summary' = [ended |-> "nothing_to_do",
                   out |-> OutputJson(TRUE, 0, 0, Len(fonts_up_to_date), <<>>)]
    /\ UNCHANGED <<source, persisted, install_dir, prev, config, all_source_fonts,
                   fonts_to_sync, fonts_to_update, fonts_up_to_date, total_size_mb,
                   disk_info, applied, added_count, updated_count, errors, loaded,
                   install_dir0, copy_ok, gate_short, stratVars, auxVars>>

\* sync.py:261-270: the disk space precheck; free is what the volume has.
SyncDiskGate ==
    /\ pc = "classified"
    /\ TotalToSync # 0
    /\ \E free \in FreeChoices :
         LET info == CheckDiskSpace(install_dir.exists, free, WithMargin(total_size_mb))
         IN /\ disk_info' = info
            /\ gate_short' = (11 * total_size_mb > 10 * free)
            /\ IF info.has_enough_space
               THEN /\ pc' = "apply"
                    /\ summary' = summary
               ELSE /\ pc' = "done"
                    /\ summary' = [ended |-> "disk_abort",
                                   out |-> OutputJson(FALSE, 0, 0, 0,
                                                      <<<<"not enough disk space">>>>)]
    /\ UNCHANGED <<source, persisted, install_dir, prev, config, all_source_fonts,
                   fonts_to_sync, fonts_to_update, fonts_up_to_date, total_size_mb,
                   applied, added_count, updated_count, errors, loaded,
                   install_dir0, copy_ok, stratVars, auxVars>>

\* A loop body that drops the manifest entry of a candidate whose copy failed.
ApplyOneForgets(st, font_name, font_hash, is_new, r) ==
    IF r.ok
    THEN [st EXCEPT !.config = AddInstalledFont(@, font_name, font_hash),
                    !.added_count = IF is_new THEN @ + 1 ELSE @,
                    !.updated_count = IF is_new THEN @ ELSE @ + 1]
    ELSE [st EXCEPT !.config = RemoveInstalledFont(@, font_name),
                    !.errors = Append(@, ErrorEntry(font_name, r.exc))]

\* A loop body that records the candidate before it looks at the copy's outcome.
ApplyOneRecordsFirst(st, font_name, font_hash, is_new, r) ==
    LET rec == [st EXCEPT !.config = AddInstalledFont(@, font_name, font_hash)]
    IN IF r.ok
       THEN [rec EXCEPT !.added_count = IF is_new THEN @ + 1 ELSE @,
                        !.updated_count = IF is_new THEN @ ELSE @ + 1]
       ELSE [rec EXCEPT !.errors = Append(@, ErrorEntry(font_name, r.exc))]

\* A loop body that counts every successful copy as an addition.
ApplyOneCountsAdded(st, font_name, font_hash, is_new, r) ==
    IF r.ok
    THEN [st EXCEPT !.config = AddInstalledFont(@, font_name, font_hash),
                    !.added_count = @ + 1]
    ELSE [st EXCEPT !.errors = Append(@, ErrorEntry(font_name, r.exc))]

\* sync.py:302-312 and 315-325: what one candidate's copy does to the
\* manifest, the counters and the error list.  r is copy_font's outcome.
ApplyOne(st, font_name, font_hash, is_new, r) ==
    IF r.ok
    THEN [st EXCEPT !.config = AddInstalledFont(@, font_name, font_hash),
                    !.added_count = IF is_new THEN @ + 1 ELSE @,
                    !.updated_count = IF is_new THEN @ ELSE @ + 1]
    ELSE [st EXCEPT !.errors = Append(@, ErrorEntry(font_name, r.exc))]

\* sync.py:298-325 (do_sync; the loops of 339-371 are the same statements
\* with a progress bar): one candidate, install candidates first.
SyncApply ==
    /\ pc = "apply"
    /\ applied < TotalToSync
    /\ LET cand == Candidates[applied + 1]
           font_path == cand[1]
           is_new == applied < Len(fonts_to_sync)
       IN \E free \in FreeChoices, fault \in SyncFaults :
            LET r == CopyFont(source, install_dir, font_path, free, fault)
                st == ApplyOne([config |-> config, added_count |-> added_count,
                                updated_count |-> updated_count, errors |-> errors],
                               font_path.name, cand[2], is_new, r)
            IN /\ install_dir' = r.inst
               /\ config' = st.config
               /\ added_count' = st.added_count
               /\ updated_count' = st.updated_count
               /\ errors' = st.errors
               /\ copy_ok' = Append(copy_ok, r.ok)
    /\ applied' = applied + 1
    /\ UNCHANGED <<source, persisted, pc, prev, all_source_fonts, fonts_to_sync,
                   fonts_to_update, fonts_up_to_date, total_size_mb, disk_info,
                   summary, loaded, install_dir0, gate_short, stratVars, auxVars>>

\* sync.py:373-389: save the manifest once, then print the summary.
SyncSave ==
    /\ pc = "apply"
    /\ applied = TotalToSync
    /\ \E outcome \in SaveOutcomes :
         LET errs == IF outcome = "ok" THEN errors
                     ELSE Append(errors, <<"config save failed">>)
         IN /\ persisted' = SaveConfig(persisted, config, outcome)
            /\ errors' = errs
            /\ summary' = [ended |-> "completed",
                           out |-> OutputJson(Len(errs) = 0, added_count, updated_count,
                                              Len(fonts_up_to_date), errs)]
    /\ pc' = "done"
    /\ UNCHANGED <<source, install_dir, prev, config, all_source_fonts, fonts_to_sync,
                   fonts_to_update, fonts_up_to_date, total_size_mb, disk_info,
                   applied, added_count, updated_count, loaded, install_dir0,
                   copy_ok, gate_short, stratVars, auxVars>>

\* The process ends; its memory is gone.
SyncExit ==
    /\ pc = "done"
    /\ pc' = "idle"
    /\ prev' = IF summary.out.success THEN "clean" ELSE "failed"
    /\ RunReset
    /\ UNCHANGED <<source, persisted, install_dir, stratVars, auxVars>>

\* Between two commands the sync folder is changed from outside: a file is
\* added, removed, rewritten, or its readability changes.
EditSource ==
    /\ pc = "idle"
    /\ \E p \in Paths, f \in FileStates :
         /\ f # source[p]
         /\ [source EXCEPT ![p] = f] \in Sources
         /\ source' = [source EXCEPT ![p] = f]
    /\ prev' = "none"
    /\ UNCHANGED <<persisted, install_dir, pc, runVars, stratVars, auxVars>>

RECURSIVE RemoveFonts(_, _)
RemoveFonts(inst, names) ==
    IF names = {} THEN inst
    ELSE LET n == CHOOSE x \in names : TRUE
         IN RemoveFonts(RemoveFont(inst, n), names \ {n})

RECURSIVE RemoveInstalledFonts(_, _)
RemoveInstalledFonts(m, names) ==
    IF names = {} THEN m
    ELSE LET n == CHOOSE x \in names : TRUE
         IN RemoveInstalledFonts(RemoveInstalledFont(m, n), names \ {n})

\* clean.py:66-86: the manifest names to remove.
FontsToRemove(fs, installed, inst) ==
    LET source_font_names == {p.name : p \in Present(fs)}
    IN {n \in DOMAIN installed :
          n \notin source_font_names \/ ~IsFontInstalled(inst, n)}

\* clean.py:22-174, the whole command.  failing are the installed names
\* whose remove_font raises.
CleanRun ==
    /\ pc = "idle"
    /\ persisted.ok
    /\ LET installed == persisted.fonts
           marked == FontsToRemove(source, installed, install_dir)
       IN \E mode \in {"dry_run", "declined", "execute"},
             failing \in SUBSET {n \in marked : IsFontInstalled(install_dir, n)},
             outcome \in SaveOutcomes :
            IF marked = {} \/ mode # "execute"
            THEN UNCHANGED <<persisted, install_dir>>
            ELSE LET done == marked \ failing
                 IN /\ install_dir' = RemoveFonts(install_dir, done)
                    /\ persisted' = SaveConfig(persisted,
                                               RemoveInstalledFonts(installed, done),
                                               outcome)
    /\ prev' = "none"
    /\ UNCHANGED <<source, pc, runVars, stratVars, auxVars>>

\* ------------------------------------------- the two strategies side by side

\* File names of a folder large enough for the parallel strategy.
BulkNames ==
    <<
      "F01.otf", "F02.otf", "F03.otf", "F04.otf", "F05.otf", "F06.otf",
      "F07.otf", "F08.otf", "F09.otf", "F10.otf", "F11.otf", "F12.otf",
      "F13.otf", "F14.otf", "F15.otf", "F16.otf", "F17.otf", "F18.otf",
      "F19.otf", "F20.otf", "F21.otf", "F22.otf", "F23.otf", "F24.otf",
      "F25.otf", "F26.otf", "F27.otf", "F28.otf", "F29.otf", "F30.otf",
      "F31.otf", "F32.otf", "F33.otf", "F34.otf", "F35.otf", "F36.otf",
      "F37.otf", "F38.otf", "F39.otf", "F40.otf", "F41.otf", "F42.otf",
      "F43.otf", "F44.otf", "F45.otf", "F46.otf", "F47.otf", "F48.otf",
      "F49.otf", "F50.otf", "F51.otf"
    >>
BulkPaths == [i \in 1..Len(BulkNames) |-> [dir |-> "bulk", name |-> BulkNames[i]]]
BulkSet == {BulkPaths[i] : i \in 1..Len(BulkPaths)}

\* What a scanned path can be when it is classified: as FileStates, or
\* flagged by is_cloud_storage_syncing after the scan; NoFile is a file that
\* vanished after the scan.
StratStates == FileStates \cup {[content |-> "v1", cond |-> "syncing"]}

Manifests == UNION {[S -> {"h1", "h2"}] : S \in SUBSET Names}

\* A classification input: the scanned paths in scan order, what is at each
\* path, the manifest.
StrategyCases ==
    {[fs |-> [p \in S \cup B |-> IF p \in S THEN f[p]
                                 ELSE [content |-> "v1", cond |-> "ok"]],
      items |-> SelectSeq(PathOrder, LAMBDA p : p \in S)
                \o (IF B = {} THEN <<>> ELSE BulkPaths),
      installed |-> m] :
       <<S, f, B, m>> \in
         {<<S, f, B, m>> \in
            (SUBSET Paths) \X [Paths -> StratStates] \X {{}, BulkSet} \X Manifests :
              /\ Cardinality(S) <= MaxFiles
              /\ \A p \in Paths \ S : f[p] = NoFile}}

NotRun == [sync |-> <<>>, update |-> <<>>, up_to_date |-> <<>>, total_size_mb |-> -1]
NoCase == [fs |-> <<>>, items |-> <<>>, installed |-> EmptyManifest]
NoResults == [seq |-> NotRun, par |-> NotRun, sel |-> NotRun]

StratIdle ==
    /\ st_in = NoCase
    /\ st_out = NoResults

StratInit ==
    /\ st_in \in StrategyCases
    /\ st_out = NoResults

SyncIdle ==
    /\ source = [p \in Paths |-> NoFile]
    /\ persisted = [ok |-> TRUE, fonts |-> EmptyManifest]
    /\ install_dir = NoInstallDir
    /\ pc = "idle"
    /\ prev = "none"
    /\ RunIdle

\* The sequential strategy, forced.
StrategySequential ==
    /\ st_in # NoCase
    /\ st_out.seq = NotRun
    /\ st_out' = [st_out EXCEPT
                    !.seq = ClassifySequential(st_in.fs, st_in.installed, st_in.items)]
    /\ UNCHANGED <<st_in, syncVars, auxVars>>

\* The parallel strategy, forced, under one completion order.
StrategyParallel ==
    /\ st_in # NoCase
    /\ st_out.seq # NotRun
    /\ st_out.par = NotRun
    /\ \E order \in CompletionOrders(Len(st_in.items)) :
         st_out' = [st_out EXCEPT
                      !.par = ClassifyParallel(st_in.fs, st_in.installed,
                                               st_in.items, order)]
    /\ UNCHANGED <<st_in, syncVars, auxVars>>

\* The strategy sync_command selects by the threshold.
StrategySelected ==
    /\ st_in # NoCase
    /\ st_out.par # NotRun
    /\ st_out.sel = NotRun
    /\ \E order \in CompletionOrders(Len(st_in.items)) :
         st_out' = [st_out EXCEPT
                      !.sel = Classify(st_in.fs, st_in.installed, st_in.items, order)]
    /\ UNCHANGED <<st_in, syncVars, auxVars>>

\* ------------------------------------------------------------ retry_on_error

\* Largest max_retries the model draws for a wrapped function.
MaxRetries == 3

\* font_manager.py:132  @retry_on_error(max_retries=3, delay=0.5); waits are
\* in units of 0.5 s.
HashMaxRetries == 3
HashDelay == 1
\* utils.py:40  backoff: float = 2.0
DefaultBackoff == 2

\* The base classes of the exception classes a call can raise (IOError is
\* OSError in Python 3).
Bases(exc) ==
    CASE exc = "FileNotFoundError" -> {"FileNotFoundError", "OSError", "Exception"}
      [] exc = "OSError" -> {"OSError", "Exception"}
      [] exc = "FileLockedError" -> {"FileLockedError", "FontSyncError", "Exception"}
      [] exc = "FontValidationError" -> {"FontValidationError", "FontSyncError", "Exception"}
      [] OTHER -> {exc, "Exception"}

\* utils.py:41  exceptions = (IOError, OSError, FileLockedError)
DefaultExceptions == {"OSError", "FileLockedError"}

\* except exceptions as e: the raised class is one of the listed or a subclass.
Caught(exc, exceptions) == Bases(exc) \cap exceptions # {}

\* One execution of calculate_hash's body (font_manager.py:148-183) without
\* cache on a file in state f: what it raises, or "ok".
CalculateHashBody(f) ==
    CASE f.cond = "absent" -> "FileNotFoundError"
      [] f.cond = "locked" -> "FileLockedError"
      [] f.cond = "ioerr" -> "OSError"
      [] OTHER -> "ok"

RetryIdle == [pc |-> "idle", attempt |-> 0, calls |-> 0, current_delay |-> 0,
              waits |-> <<>>, result |-> None, exc |-> None]

NoRetryCase == [func |-> "none", max_retries |-> 0, delay |-> 0, backoff |-> 0,
                script |-> <<>>]

\* The wrapped functions the model draws from: a function whose successive
\* calls do what the script says, under any max_retries, delay and backoff;
\* and calculate_hash under its decorator, the file being in some state at
\* each call.
RetryCases ==
    {[func |-> "generic", max_retries |-> n, delay |-> d, backoff |-> b, script |-> sc] :
        <<n, d, b, sc>> \in
          UNION {{<<n, d, b, sc>> : d \in {1, 2}, b \in {2, 3},
                                    sc \in [1..(n + 1) ->
                                              {"ok", "OSError", "FileLockedError",
                                               "FontValidationError"}]} :
                 n \in 0..MaxRetries}}
    \cup
    {[func |-> "calculate_hash", max_retries |-> HashMaxRetries, delay |-> HashDelay,
      backoff |-> DefaultBackoff,
      script |-> [i \in 1..(HashMaxRetries + 1) |-> CalculateHashBody(fl[i])]] :
        fl \in [1..(HashMaxRetries + 1) ->
                  {NoFile, [content |-> "v1", cond |-> "ok"],
                   [content |-> "v1", cond |-> "locked"],
                   [content |-> "v1", cond |-> "ioerr"]}]}

\* A wrapper that gives up one attempt early.
RetryAttemptGivesUpEarly(r, max_retries, backoff, outcome) ==
    LET called == [r EXCEPT !.calls = @ + 1]
    IN IF outcome = "ok"
       THEN [called EXCEPT !.pc = "returned", !.result = <<"result", called.calls>>]
       ELSE IF ~Caught(outcome, DefaultExceptions)
       THEN [called EXCEPT !.pc = "raised", !.exc = outcome]
       ELSE IF r.attempt + 1 < max_retries
       THEN [called EXCEPT !.waits = Append(@, r.current_delay),
                           !.current_delay = @ * backoff,
                           !.attempt = @ + 1]
       ELSE [called EXCEPT !.pc = "raised", !.exc = outcome]

\* A wrapper that waits the same time before every retry.
RetryAttemptNoBackoff(r, max_retries, backoff, outcome) ==
    LET called == [r EXCEPT !.calls = @ + 1]
    IN IF outcome = "ok"
       THEN [called EXCEPT !.pc = "returned", !.result = <<"result", called.calls>>]
       ELSE IF ~Caught(outcome, DefaultExceptions)
       THEN [called EXCEPT !.pc = "raised", !.exc = outcome]
       ELSE IF r.attempt < max_retries
       THEN [called EXCEPT !.waits = Append(@, r.current_delay),
                           !.attempt = @ + 1]
       ELSE [called EXCEPT !.pc = "raised", !.exc = outcome]

\* utils.py:57-66: one pass of the wrapper's loop.  The call returns
\* (its value is told apart by the call's number), raises an exception that
\* is not caught, or raises a caught one: sleep and go on, or re-raise when
\* attempt = max_retries.
RetryAttempt(r, max_retries, backoff, outcome) ==
    LET called == [r EXCEPT !.calls = @ + 1]
    IN IF outcome = "ok"
       THEN [called EXCEPT !.pc = "returned", !.result = <<"result", called.calls>>]
       ELSE IF ~Caught(outcome, DefaultExceptions)
       THEN [called EXCEPT !.pc = "raised", !.exc = outcome]
       ELSE IF r.attempt < max_retries
       THEN [called EXCEPT !.waits = Append(@, r.current_delay),
                           !.current_delay = @ * backoff,
                           !.attempt = @ + 1]
       ELSE [called EXCEPT !.pc = "raised", !.exc = outcome]

RetryVarsIdle ==
    /\ rt_in = NoRetryCase
    /\ rt = RetryIdle

RetryInit ==
    /\ rt_in \in RetryCases
    /\ rt = RetryIdle

\* utils.py:55-56: the wrapper is entered.
RetryEnter ==
    /\ rt.pc = "idle"
    /\ rt_in # NoRetryCase
    /\ rt' = [rt EXCEPT !.pc = "running", !.current_delay = rt_in.delay]
    /\ UNCHANGED <<rt_in, cacheVars, pbVars, syncVars, stratVars, unitVars>>

\* utils.py:58-66: one attempt.
RetryLoop ==
    /\ rt.pc = "running"
    /\ rt' = RetryAttempt(rt, rt_in.max_retries, rt_in.backoff,
                          rt_in.script[rt.attempt + 1])
    /\ UNCHANGED <<rt_in, cacheVars, pbVars, syncVars, stratVars, unitVars>>

\* ---------------------------------------------------------------- FontCache

\* The clock starts at StartClock and the model follows it up to MaxClock.
StartClock == 1
MaxClock == 2

\* The ttl_hours the model draws from: no expiry, one hour.
TtlChoices == {0, 1}

\* The (st_size, st_mtime) pairs the cached file goes through.
StatStates == {"s1", "s2"}

\* A key of the path alone.
CacheKeyOfPathOnly(p, st) == <<p, "s1">>

\* FontCache._get_cache_key: md5 of "path:size:mtime", taken as injective.
CacheKey(p, st) == <<p, st>>

CacheKeys == {CacheKey(PA, st) : st \in StatStates}

\* FontCache._is_cache_valid.
IsCacheValid(ttl, now, timestamp) == ttl <= 0 \/ now < timestamp + ttl

\* A persisted cache document: no file, a JSON object of entries, text that
\* does not parse, a JSON array, JSON null.
NoDoc == [shape |-> "absent", entries |-> <<>>]
Unparseable == [shape |-> "unparseable", entries |-> <<>>]

\* FontCache._load_cache_file: the value json.load gives, {} when the file
\* is missing or does not parse.
LoadCacheFile(doc) ==
    CASE doc.shape = "object" -> [type |-> "dict", entries |-> doc.entries]
      [] doc.shape = "array" -> [type |-> "list", entries |-> <<>>]
      [] doc.shape = "null" -> [type |-> "NoneType", entries |-> <<>>]
      [] OTHER -> [type |-> "dict", entries |-> <<>>]

\* FontCache._save_cache_file: open(cache_file, 'w') and json.dump; every
\* exception is swallowed.  The write succeeds, fails before the file is
\* opened, or fails after it was truncated.
SaveCacheFile(doc, data, outcome) ==
    CASE outcome = "ok" -> [shape |-> "object", entries |-> data]
      [] outcome = "truncated" -> Unparseable
      [] OTHER -> doc

\* An entry whose 'timestamp' key is missing.
NoTimestamp == -1

\* dict[key] = entry
Put(d, key, entry) == [k \in (DOMAIN d) \cup {key} |-> IF k = key THEN entry ELSE d[k]]

\* get_hash trusting the memo whatever its age.
GetHashStaleMemo(memo, doc, key, ttl, now) ==
    LET hash_cache == LoadCacheFile(doc)
        Ret(m, v, x) == [memo |-> m, result |-> v, raised |-> x]
    IN IF key \in DOMAIN memo
       THEN Ret(memo, memo[key].value, None)
       ELSE IF hash_cache.type = "NoneType" THEN Ret(memo, None, "TypeError")
       ELSE IF key \notin DOMAIN hash_cache.entries THEN Ret(memo, None, None)
       ELSE IF hash_cache.entries[key].timestamp = NoTimestamp THEN Ret(memo, None, "KeyError")
       ELSE IF IsCacheValid(ttl, now, hash_cache.entries[key].timestamp)
       THEN Ret(Put(memo, key, hash_cache.entries[key]), hash_cache.entries[key].value, None)
       ELSE Ret(memo, None, None)

\* FontCache.get_hash: the memo after the call, the value returned, the
\* exception raised.
GetHash(memo, doc, key, ttl, now) ==
    LET hash_cache == LoadCacheFile(doc)
        Ret(m, v, x) == [memo |-> m, result |-> v, raised |-> x]
    IN IF key \in DOMAIN memo /\ IsCacheValid(ttl, now, memo[key].timestamp)
       THEN Ret(memo, memo[key].value, None)
       ELSE IF hash_cache.type = "NoneType" THEN Ret(memo, None, "TypeError")
       ELSE IF key \notin DOMAIN hash_cache.entries THEN Ret(memo, None, None)
       ELSE IF hash_cache.entries[key].timestamp = NoTimestamp THEN Ret(memo, None, "KeyError")
       ELSE IF IsCacheValid(ttl, now, hash_cache.entries[key].timestamp)
       THEN Ret(Put(memo, key, hash_cache.entries[key]), hash_cache.entries[key].value, None)
       ELSE Ret(memo, None, None)

\* FontCache.set_hash: memo first, then load, insert, save.
SetHash(memo, doc, key, hash_value, now, outcome) ==
    LET entry == [value |-> hash_value, timestamp |-> now]
        hash_cache == LoadCacheFile(doc)
    IN IF hash_cache.type # "dict"
       THEN [memo |-> Put(memo, key, entry), doc |-> doc, raised |-> "TypeError"]
       ELSE [memo |-> Put(memo, key, entry),
             doc |-> SaveCacheFile(doc, Put(hash_cache.entries, key, entry), outcome),
             raised |-> None]

\* FontCache.get_info: the persisted store only.
GetInfo(doc, key, ttl, now) ==
    LET info_cache == LoadCacheFile(doc)
    IN IF info_cache.type = "NoneType" THEN [result |-> None, raised |-> "TypeError"]
       ELSE IF key \notin DOMAIN info_cache.entries THEN [result |-> None, raised |-> None]
       ELSE IF info_cache.entries[key].timestamp = NoTimestamp
       THEN [result |-> None, raised |-> "KeyError"]
       ELSE IF IsCacheValid(ttl, now, info_cache.entries[key].timestamp)
       THEN [result |-> info_cache.entries[key].value, raised |-> None]
       ELSE [result |-> None, raised |-> None]

\* FontCache.set_info.
SetInfo(doc, key, info, now, outcome) ==
    LET entry == [value |-> info, timestamp |-> now]
        info_cache == LoadCacheFile(doc)
    IN IF info_cache.type # "dict"
       THEN [doc |-> doc, raised |-> "TypeError"]
       ELSE [doc |-> SaveCacheFile(doc, Put(info_cache.entries, key, entry), outcome),
             raised |-> None]

\* entry.get('timestamp', 0)
TimestampOr0(entry) == IF entry.timestamp = NoTimestamp THEN 0 ELSE entry.timestamp

\* A sweep that finds nothing expired.
ValidEntriesKeepsAll(d, ttl, now) == d

\* The entries of d that _is_cache_valid accepts.
ValidEntries(d, ttl, now) ==
    [k \in {k \in DOMAIN d : IsCacheValid(ttl, now, TimestampOr0(d[k]))} |-> d[k]]

\* A sweep of the two documents that leaves the memo as it is.
CleanupExpiredKeepsMemo(memo, hdoc, idoc, ttl, now, hash_outcome, info_outcome) ==
    LET hl == LoadCacheFile(hdoc)
        il == LoadCacheFile(idoc)
        valid_hash_cache == ValidEntries(hl.entries, ttl, now)
        valid_info_cache == ValidEntries(il.entries, ttl, now)
        hash_removed == Cardinality(DOMAIN hl.entries) - Cardinality(DOMAIN valid_hash_cache)
        info_removed == Cardinality(DOMAIN il.entries) - Cardinality(DOMAIN valid_info_cache)
        hdoc2 == IF hash_removed > 0
                 THEN SaveCacheFile(hdoc, valid_hash_cache, hash_outcome) ELSE hdoc
        idoc2 == IF info_removed > 0
                 THEN SaveCacheFile(idoc, valid_info_cache, info_outcome) ELSE idoc
    IN [memo |-> memo, hdoc |-> hdoc2, idoc |-> idoc2,
        result |-> <<hash_removed, info_removed>>, raised |-> None]

\* FontCache.cleanup_expired: hash store, info store, memo, in this order;
\* .items() raises on a document that is not a JSON object.
CleanupExpired(memo, hdoc, idoc, ttl, now, hash_outcome, info_outcome) ==
    LET hl == LoadCacheFile(hdoc)
        il == LoadCacheFile(idoc)
        valid_hash_cache == ValidEntries(hl.entries, ttl, now)
        valid_info_cache == ValidEntries(il.entries, ttl, now)
        hash_removed == Cardinality(DOMAIN hl.entries) - Cardinality(DOMAIN valid_hash_cache)
        info_removed == Cardinality(DOMAIN il.entries) - Cardinality(DOMAIN valid_info_cache)
        hdoc2 == IF hash_removed > 0
                 THEN SaveCacheFile(hdoc, valid_hash_cache, hash_outcome) ELSE hdoc
        idoc2 == IF info_removed > 0
                 THEN SaveCacheFile(idoc, valid_info_cache, info_outcome) ELSE idoc
    IN IF hl.type # "dict"
       THEN [memo |-> memo, hdoc |-> hdoc, idoc |-> idoc, result |-> <<>>,
             raised |-> "AttributeError"]
       ELSE IF il.type # "dict"
       THEN [memo |-> memo, hdoc |-> hdoc2, idoc |-> idoc, result |-> <<>>,
             raised |-> "AttributeError"]
       ELSE [memo |-> ValidEntries(memo, ttl, now), hdoc |-> hdoc2, idoc |-> idoc2,
             result |-> <<hash_removed, info_removed>>, raised |-> None]

NoCall == [op |-> "none", arg |-> None, result |-> None, removed |-> <<>>,
           raised |-> None, set_stat |-> None]

\* The record of a call.
Call(op, arg, result, raised, set_stat) ==
    [op |-> op, arg |-> arg, result |-> result, removed |-> <<>>,
     raised |-> raised, set_stat |-> set_stat]

CacheVarsIdle ==
    /\ clock = 0
    /\ ttl_hours = 0
    /\ file_stat = "s1"
    /\ memory_cache = <<>>
    /\ hash_cache_file = NoDoc
    /\ info_cache_file = NoDoc
    /\ cache_last = NoCall

\* FontCache.__init__: an empty memo over a cache directory without documents.
CacheInit ==
    /\ clock = StartClock
    /\ ttl_hours \in TtlChoices
    /\ file_stat = "s1"
    /\ memory_cache = <<>>
    /\ hash_cache_file = NoDoc
    /\ info_cache_file = NoDoc
    /\ cache_last = NoCall

WriteOutcomes == {"ok", "unwritten", "truncated"}

CacheGetHash ==
    /\ clock >= StartClock
    /\ LET key == CacheKey(PA, file_stat)
           r == GetHash(memory_cache, hash_cache_file, key, ttl_hours, clock)
       IN /\ memory_cache' = r.memo
          /\ cache_last' = Call("get_hash", None, r.result, r.raised,
                            cache_last.set_stat)
    /\ UNCHANGED <<clock, ttl_hours, file_stat, hash_cache_file, info_cache_file,
                   retryVars, pbVars, syncVars, stratVars, unitVars>>

\* The hash values callers store.
HashValues == {"h1", "h2"}

CacheSetHashOf(values) ==
    /\ clock >= StartClock
    /\ \E h \in values, outcome \in WriteOutcomes :
         LET key == CacheKey(PA, file_stat)
             r == SetHash(memory_cache, hash_cache_file, key, h, clock, outcome)
         IN /\ memory_cache' = r.memo
            /\ hash_cache_file' = r.doc
            /\ cache_last' = Call("set_hash", h, None, r.raised, file_stat)
    /\ UNCHANGED <<clock, ttl_hours, file_stat, info_cache_file,
                   retryVars, pbVars, syncVars, stratVars, unitVars>>

CacheSetHash == CacheSetHashOf(HashValues)

CacheGetInfo ==
    /\ clock >= StartClock
    /\ LET key == CacheKey(PA, file_stat)
           r == GetInfo(info_cache_file, key, ttl_hours, clock)
       IN cache_last' = Call("get_info", None, r.result, r.raised,
                            cache_last.set_stat)
    /\ UNCHANGED <<clock, ttl_hours, file_stat, memory_cache, hash_cache_file,
                   info_cache_file, retryVars, pbVars, syncVars, stratVars, unitVars>>

CacheSetInfo ==
    /\ clock >= StartClock
    /\ \E outcome \in WriteOutcomes :
         LET key == CacheKey(PA, file_stat)
             r == SetInfo(info_cache_file, key, "info", clock, outcome)
         IN /\ info_cache_file' = r.doc
            /\ cache_last' = Call("set_info", "info", None, r.raised,
                            cache_last.set_stat)
    /\ UNCHANGED <<clock, ttl_hours, file_stat, memory_cache, hash_cache_file,
                   retryVars, pbVars, syncVars, stratVars, unitVars>>

CacheCleanupExpired ==
    /\ clock >= StartClock
    /\ \E ho \in WriteOutcomes, io \in WriteOutcomes :
         LET r == CleanupExpired(memory_cache, hash_cache_file, info_cache_file,
                                 ttl_hours, clock, ho, io)
         IN /\ memory_cache' = r.memo
            /\ hash_cache_file' = r.hdoc
            /\ info_cache_file' = r.idoc
            /\ cache_last' = [Call("cleanup_expired", None, None, r.raised,
                                   cache_last.set_stat)
                              EXCEPT !.removed = r.result]
    /\ UNCHANGED <<clock, ttl_hours, file_stat, retryVars, pbVars, syncVars, stratVars, unitVars>>

\* FontCache.clear.
CacheClear ==
    /\ clock >= StartClock
    /\ memory_cache' = <<>>
    /\ hash_cache_file' = NoDoc
    /\ info_cache_file' = NoDoc
    /\ cache_last' = Call("clear", None, None, None,
                            cache_last.set_stat)
    /\ UNCHANGED <<clock, ttl_hours, file_stat, retryVars, pbVars, syncVars, stratVars, unitVars>>

\* set_hash whose write of hash_cache.json succeeds.
CacheSetHashWritten ==
    /\ clock >= StartClock
    /\ \E hv \in HashValues :
         LET key == CacheKey(PA, file_stat)
             r == SetHash(memory_cache, hash_cache_file, key, hv, clock, "ok")
         IN /\ memory_cache' = r.memo
            /\ hash_cache_file' = r.doc
            /\ cache_last' = Call("set_hash", hv, None, r.raised, file_stat)
    /\ UNCHANGED <<clock, ttl_hours, file_stat, info_cache_file,
                   retryVars, pbVars, syncVars, stratVars, unitVars>>

\* cleanup_expired whose writes succeed.
CacheCleanupExpiredWritten ==
    /\ clock >= StartClock
    /\ LET r == CleanupExpired(memory_cache, hash_cache_file, info_cache_file,
                               ttl_hours, clock, "ok", "ok")
       IN /\ memory_cache' = r.memo
          /\ hash_cache_file' = r.hdoc
          /\ info_cache_file' = r.idoc
          /\ cache_last' = [Call("cleanup_expired", None, None, r.raised,
                                 cache_last.set_stat)
                            EXCEPT !.removed = r.result]
    /\ UNCHANGED <<clock, ttl_hours, file_stat, retryVars, pbVars, syncVars, stratVars, unitVars>>

\* An hour passes.
CacheTick ==
    /\ clock >= StartClock
    /\ clock < MaxClock
    /\ clock' = clock + 1
    /\ cache_last' = Call("tick", None, None, None,
                            cache_last.set_stat)
    /\ UNCHANGED <<ttl_hours, file_stat, memory_cache, hash_cache_file,
                   info_cache_file, retryVars, pbVars, syncVars, stratVars, unitVars>>

\* The cached file is rewritten, or an older version of it is restored with
\* its modification time.
CacheFileChanges ==
    /\ clock >= StartClock
    /\ \E st \in StatStates \ {file_stat} : file_stat' = st
    /\ cache_last' = Call("file_changes", None, None, None,
                            cache_last.set_stat)
    /\ UNCHANGED <<clock, ttl_hours, memory_cache, hash_cache_file,
                   info_cache_file, retryVars, pbVars, syncVars, stratVars, unitVars>>

\* hash_cache.json is written from outside: text that does not parse, a JSON
\* array, JSON null, or an entry without a timestamp.
CacheDocDamaged ==
    /\ clock >= StartClock
    /\ \/ \E shape \in {"unparseable", "array", "null"} :
            hash_cache_file' = [shape |-> shape, entries |-> <<>>]
       \/ \E k \in CacheKeys :
            /\ hash_cache_file.shape = "object"
            /\ k \in DOMAIN hash_cache_file.entries
            /\ hash_cache_file.entries[k].timestamp # NoTimestamp
            /\ hash_cache_file' =
                 [hash_cache_file EXCEPT !.entries[k].timestamp = NoTimestamp]
    /\ cache_last' = Call("doc_damaged", None, None, None,
                            cache_last.set_stat)
    /\ UNCHANGED <<clock, ttl_hours, file_stat, memory_cache, info_cache_file,
                   retryVars, pbVars, syncVars, stratVars, unitVars>>

\* -------------------------------------------- ParallelProcessor.process_batch

\* The batch holds up to MaxItems items.
MaxItems == 3

\* ParallelConfig.max_workers on a machine with up to five cores.
MaxWorkers == 2

\* FontCache(): ttl_hours of the cache the FontManager of sync builds.
DefaultTtlHours == 24

\* The hash of the item's file.
HashOf(item) == IF item % 2 = 1 THEN "h1" ELSE "h2"

PbCases ==
    {[total |-> n, outcome |-> o, timeout |-> t, error_handler |-> e, chunk_size |-> c] :
        n \in {0}, o \in {<<>>}, t \in BOOLEAN, e \in BOOLEAN, c \in {2, ChunkSize}}
    \cup UNION {
    {[total |-> n, outcome |-> o, timeout |-> t, error_handler |-> e, chunk_size |-> c] :
        o \in [1..n -> {"ok", "raise"}], t \in BOOLEAN, e \in BOOLEAN,
        c \in {2, ChunkSize}} : n \in 1..MaxItems}

NoPbCase == [total |-> 0, outcome |-> <<>>, timeout |-> FALSE,
             error_handler |-> FALSE, chunk_size |-> ChunkSize]

PbIdle == [phase |-> "idle", i |-> 0, future |-> <<>>, hash_cache |-> <<>>,
           results |-> <<>>, completed |-> 0, progress |-> <<>>,
           thread |-> "none"]

PbVarsIdle == pb_in = NoPbCase /\ pb = PbIdle

\* process_batch is entered: results = [], completed = 0, total = len(items).
\* The cache is the one FontManager() has just built.
PbInit ==
    /\ pb_in \in PbCases
    /\ pb = [phase |-> "submit", i |-> 1,
             future |-> [j \in 1..pb_in.total |-> "none"],
             hash_cache |-> [j \in 1..pb_in.total |-> <<>>],
             results |-> <<>>, completed |-> 0, progress |-> <<>>,
             thread |-> "orchestrator"]
    /\ clock = StartClock
    /\ ttl_hours = DefaultTtlHours
    /\ file_stat = "s1"
    /\ memory_cache = <<>>
    /\ hash_cache_file = NoDoc
    /\ info_cache_file = NoDoc
    /\ cache_last = NoCall

\* A batch that takes every remaining item.
BatchToEnd(st, in) == {j \in 1..in.total : st.i <= j}

\* batch = items[i:i + chunk_size]
Batch(st, in) == {j \in 1..in.total : st.i <= j /\ j < st.i + in.chunk_size}

Finished(st, j) == st.future[j] \in {"result", "exception"}

\* The orchestrating thread submits one future per item of the next batch.
SubmitBatch ==
    /\ pb.phase = "submit"
    /\ pb.i <= pb_in.total
    /\ pb' = [pb EXCEPT !.phase = "collect",
                        !.future = [j \in 1..pb_in.total |->
                                      IF j \in Batch(pb, pb_in) THEN "queued"
                                      ELSE pb.future[j]],
                        !.thread = "orchestrator"]
    /\ UNCHANGED <<pb_in, cacheVars, retryVars, syncVars, stratVars, unitVars>>

\* A worker thread takes the oldest queued item and runs calculate_hash up to
\* the load of hash_cache.json in set_hash: a missing, locked or unreadable
\* file raises, a cached hash is returned, otherwise the hash is computed,
\* put in the memo and the document is loaded.
WorkerRun ==
    \E j \in 1..pb_in.total :
      /\ pb.future[j] = "queued"
      /\ \A k \in 1..(j - 1) : pb.future[k] # "queued"
      /\ Cardinality({k \in 1..pb_in.total : pb.future[k] = "saving"}) < MaxWorkers
      /\ LET key == CacheKey(j, file_stat)
             got == GetHash(memory_cache, hash_cache_file, key, ttl_hours, clock)
             entry == [value |-> HashOf(j), timestamp |-> clock]
             hash_cache == LoadCacheFile(hash_cache_file)
         IN IF pb_in.outcome[j] = "raise"
            THEN /\ pb' = [pb EXCEPT !.future[j] = "exception", !.thread = "worker"]
                 /\ UNCHANGED memory_cache
            ELSE IF got.raised # None
            THEN /\ pb' = [pb EXCEPT !.future[j] = "exception", !.thread = "worker"]
                 /\ memory_cache' = got.memo
            ELSE IF got.result # None
            THEN /\ pb' = [pb EXCEPT !.future[j] = "result", !.thread = "worker"]
                 /\ memory_cache' = got.memo
            ELSE IF hash_cache.type # "dict"
            THEN /\ pb' = [pb EXCEPT !.future[j] = "exception", !.thread = "worker"]
                 /\ memory_cache' = Put(memory_cache, key, entry)
            ELSE /\ pb' = [pb EXCEPT !.future[j] = "saving",
                                     !.hash_cache[j] = Put(hash_cache.entries, key, entry),
                                     !.thread = "worker"]
                 /\ memory_cache' = Put(memory_cache, key, entry)
      /\ UNCHANGED <<pb_in, clock, ttl_hours, file_stat, hash_cache_file,
                     info_cache_file, cache_last, retryVars, syncVars, stratVars, unitVars>>

\* The worker thread saves the document it loaded, with its entry, and
\* returns the hash.
WorkerSave ==
    \E j \in 1..pb_in.total :
      /\ pb.future[j] = "saving"
      /\ hash_cache_file' = SaveCacheFile(hash_cache_file, pb.hash_cache[j], "ok")
      /\ pb' = [pb EXCEPT !.future[j] = "result", !.hash_cache[j] = <<>>,
                          !.thread = "worker"]
      /\ UNCHANGED <<pb_in, clock, ttl_hours, file_stat, memory_cache,
                     info_cache_file, cache_last, retryVars, syncVars, stratVars, unitVars>>

\* Every future taken as successful.
ResultTupleNoExcept(st, in, j) ==
    [success |-> TRUE, by |-> "process_func", item |-> j]

\* What the orchestrating thread appends for a finished future.
ResultTuple(st, in, j) ==
    IF st.future[j] = "result"
    THEN [success |-> TRUE, by |-> "process_func", item |-> j]
    ELSE IF in.error_handler
    THEN [success |-> FALSE, by |-> "error_handler", item |-> j]
    ELSE [success |-> FALSE, by |-> "default", item |-> j]

\* completed left as it is.
CompletedNotIncremented(st) == st.completed

\* completed += 1
Completed(st) == st.completed + 1

\* as_completed yields a finished future of the batch: its tuple is appended,
\* completed is incremented and progress_callback(completed, total) called;
\* after the last future of the batch the loop goes to the next batch.
CollectFuture ==
    \E j \in Batch(pb, pb_in) :
      /\ pb.phase = "collect"
      /\ Finished(pb, j)
      /\ LET last == \A k \in Batch(pb, pb_in) \ {j} : pb.future[k] = "yielded"
         IN pb' = [pb EXCEPT !.future[j] = "yielded",
                             !.results = Append(pb.results, ResultTuple(pb, pb_in, j)),
                             !.completed = Completed(pb),
                             !.progress = Append(pb.progress,
                                                 <<Completed(pb), pb_in.total>>),
                             !.phase = IF last THEN "submit" ELSE "collect",
                             !.i = IF last THEN pb.i + pb_in.chunk_size ELSE pb.i,
                             !.thread = "orchestrator"]
      /\ UNCHANGED <<pb_in, cacheVars, retryVars, syncVars, stratVars, unitVars>>

\* config.timeout is set and elapses while a future of the batch is not
\* finished: as_completed raises TimeoutError.
AsCompletedTimeout ==
    /\ pb.phase = "collect"
    /\ pb_in.timeout
    /\ \E j \in Batch(pb, pb_in) : pb.future[j] \in {"queued", "saving"}
    /\ pb' = [pb EXCEPT !.phase = "timeout", !.thread = "orchestrator"]
    /\ UNCHANGED <<pb_in, cacheVars, retryVars, syncVars, stratVars, unitVars>>

\* The executor is shut down, which waits for the submitted futures, and
\* TimeoutError leaves process_batch.
ProcessBatchRaises ==
    /\ pb.phase = "timeout"
    /\ \A j \in 1..pb_in.total : pb.future[j] \notin {"queued", "saving"}
    /\ pb' = [pb EXCEPT !.phase = "raised", !.thread = "orchestrator"]
    /\ UNCHANGED <<pb_in, cacheVars, retryVars, syncVars, stratVars, unitVars>>

\* return results
ProcessBatchReturns ==
    /\ pb.phase = "submit"
    /\ pb.i > pb_in.total
    /\ pb' = [pb EXCEPT !.phase = "returned", !.thread = "orchestrator"]
    /\ UNCHANGED <<pb_in, cacheVars, retryVars, syncVars, stratVars, unitVars>>

\* ------------------------------------------------------ filesystem guards

\* A string is the sequence of its characters.
MaxLen == 3

\* sub in s
Contains(s, sub) ==
    \E i \in 1..(Len(s) - Len(sub) + 1) : SubSeq(s, i, i + Len(sub) - 1) = sub

\* s.endswith(suffix)
EndsWith(s, suffix) ==
    /\ Len(s) >= Len(suffix)
    /\ SubSeq(s, Len(s) - Len(suffix) + 1, Len(s)) = suffix

\* s.strip(chars)
Strip(s, chars) ==
    LET keep == {i \in 1..Len(s) : s[i] \notin chars}
    IN IF keep = {} THEN <<>>
       ELSE SubSeq(s, CHOOSE i \in keep : \A j \in keep : i <= j,
                      CHOOSE i \in keep : \A j \in keep : i >= j)

\* get_safe_filename: invalid_chars.
InvalidChars == {"/", "\\", ":", "*", "?", "\"", "<", ">", "|"}

UnnamedFont == <<"u", "n", "n", "a", "m", "e", "d", "_", "f", "o", "n", "t">>

\* get_safe_filename without the default name.
GetSafeFilenameNoDefault(filename) ==
    Strip([i \in 1..Len(filename) |->
             IF filename[i] \in InvalidChars THEN "_" ELSE filename[i]],
          {".", " "})

\* utils.get_safe_filename.
GetSafeFilename(filename) ==
    LET replaced == [i \in 1..Len(filename) |->
                       IF filename[i] \in InvalidChars THEN "_" ELSE filename[i]]
        safe_name == Strip(replaced, {".", " "})
    IN IF safe_name = <<>> THEN UnnamedFont ELSE safe_name

\* The characters file names are drawn from.
Chars == InvalidChars \cup {"a", "_", ".", " "}

FileNames == UNION {[1..n -> Chars] : n \in 0..MaxLen} \cup {UnnamedFont}

\* is_cloud_storage_syncing: sync_indicators.
SyncIndicators == {<<".", "t", "m", "p">>, <<".", "d", "o", "w", "n", "l", "o", "a", "d">>, <<".", "p", "a", "r", "t", "i", "a", "l">>, <<"~">>}

ICloudMarker == <<".", "i", "c", "l", "o", "u", "d">>

\* is_cloud_storage_syncing: dropbox_attrs.
DropboxAttrs == {<<".", "d", "r", "o", "p", "b", "o", "x", ".", "a", "t", "t", "r">>, <<".", "d", "r", "o", "p", "b", "o", "x">>}

\* utils.is_cloud_storage_syncing on the path string, given the names
\* present in the path's parent directory.
IsCloudStorageSyncingOf(path, parent) ==
    IF DropboxAttrs \cap parent # {} THEN FALSE
    ELSE IF Contains(path, ICloudMarker) THEN TRUE
    ELSE \E ind \in SyncIndicators : EndsWith(path, ind)

\* The directories and file names the detector is tried on.
CloudDirs == {<<"d">>, <<"d", "/", ".", "i", "c", "l", "o", "u", "d">>, <<"x", ".", "i", "c", "l", "o", "u", "d", "y", "/", "e">>, <<"d", ".", "t", "m", "p">>}
CloudNames == {<<"a", ".", "o", "t", "f">>,
               <<"a", ".", "o", "t", "f", ".", "t", "m", "p">>,
               <<"a", ".", "d", "o", "w", "n", "l", "o", "a", "d">>,
               <<"a", ".", "p", "a", "r", "t", "i", "a", "l">>,
               <<"a", ".", "o", "t", "f", "~">>,
               <<"a", ".", "i", "c", "l", "o", "u", "d">>,
               <<".", "a", ".", "o", "t", "f", ".", "i", "c", "l", "o", "u", "d">>,
               <<"a", ".", "t", "m", "p", ".", "o", "t", "f">>,
               <<"t", "m", "p">>,
               <<"~", "a">>}

\* str(path)
PathStr(dir, name) == dir \o <<"/">> \o name

GuardCases ==
    {[call |-> "get_safe_filename", dir |-> <<>>, name |-> n, parent |-> {}] :
        n \in FileNames}
    \cup {[call |-> "is_cloud_storage_syncing", dir |-> d, name |-> n, parent |-> ls] :
            d \in CloudDirs, n \in CloudNames,
            ls \in SUBSET (DropboxAttrs \cup {<<"b", ".", "o", "t", "f">>})}

NoGuardCase == [call |-> "none", dir |-> <<>>, name |-> <<>>, parent |-> {}]
NoGuardResult == [done |-> FALSE, safe_name |-> <<>>, syncing |-> FALSE]

GuardVarsIdle == g_in = NoGuardCase /\ g_out = NoGuardResult

GuardInit == g_in \in GuardCases /\ g_out = NoGuardResult

CallGetSafeFilename ==
    /\ g_in.call = "get_safe_filename"
    /\ ~g_out.done
    /\ g_out' = [done |-> TRUE, safe_name |-> GetSafeFilename(g_in.name),
                 syncing |-> FALSE]
    /\ UNCHANGED <<g_in, scanVars, fmVars, cleanVars, coreVars>>

CallIsCloudStorageSyncing ==
    /\ g_in.call = "is_cloud_storage_syncing"
    /\ ~g_out.done
    /\ g_out' = [done |-> TRUE, safe_name |-> <<>>,
                 syncing |-> IsCloudStorageSyncingOf(PathStr(g_in.dir, g_in.name),
                                                    g_in.parent)]
    /\ UNCHANGED <<g_in, scanVars, fmVars, cleanVars, coreVars>>

\* ------------------------------------------------- FontManager.scan_fonts

\* FontManager.font_extensions.
FontExtensions == <<<<".", "o", "t", "f">>, <<".", "t", "t", "f">>, <<".", "O", "T", "F">>, <<".", "T", "T", "F">>>>

\* _scan_fonts_generator: batch_size.
ScanBatchSize == 100

\* The characters of the names below, in code point order.
CharOrder == <<"-", ".", "/", "0", "1", "2", "3", "4", "5", "6", "7", "8", "9", "F", "O", "T", "_", "a", "b", "c", "d", "e", "f", "h", "i", "l", "m", "n", "o", "p", "r", "s", "t", "u", "x", "~">>
Rank == [c \in {CharOrder[i] : i \in 1..Len(CharOrder)} |->
           CHOOSE i \in 1..Len(CharOrder) : CharOrder[i] = c]

\* str < str
StrLess(a, b) ==
    LET diff == {i \in 1..Min(Len(a), Len(b)) : a[i] # b[i]}
        k == CHOOSE i \in diff : \A j \in diff : i <= j
    IN IF diff = {} THEN Len(a) < Len(b) ELSE Rank[a[k]] < Rank[b[k]]

\* Path < Path: the parts are compared one after the other.
PathLess(p, q) ==
    LET diff == {i \in 1..Min(Len(p.parts), Len(q.parts)) : p.parts[i] # q.parts[i]}
        k == CHOOSE i \in diff : \A j \in diff : i <= j
    IN IF diff = {} THEN Len(p.parts) < Len(q.parts)
       ELSE StrLess(p.parts[k], q.parts[k])

\* The fonts in the order they were found.
SortedNot(fonts) == fonts

\* sorted(fonts)
Sorted(fonts) == SortSeq(fonts, PathLess)

\* Path.name and Path.parent
NameOf(e) == e.parts[Len(e.parts)]
ParentOf(e) == SubSeq(e.parts, 1, Len(e.parts) - 1)

RECURSIVE JoinParts(_)
JoinParts(parts) ==
    IF Len(parts) = 1 THEN parts[1]
    ELSE parts[1] \o <<"/">> \o JoinParts(Tail(parts))

\* The names in the directory of e.
Siblings(walk, e) ==
    {NameOf(walk[i]) : i \in {i \in 1..Len(walk) : ParentOf(walk[i]) = ParentOf(e)}}

\* folder.rglob("*" + ext): every entry of the tree, file or directory,
\* whose name ends with ext, in the order of the walk.
Rglob(walk, ext) == SelectSeq(walk, LAMBDA e : EndsWith(NameOf(e), ext))

\* The two tests of the scan loops.
ScanSkips(walk, e) ==
    \/ NameOf(e)[1] = "."
    \/ IsCloudStorageSyncingOf(JoinParts(e.parts), Siblings(walk, e))

\* FontManager._scan_fonts_all.
ScanFontsAll(walk) ==
    Sorted(Flatten([x \in 1..Len(FontExtensions) |->
                      SelectSeq(Rglob(walk, FontExtensions[x]),
                                LAMBDA e : ~ScanSkips(walk, e))]))

\* A folder of a few entries: fonts at three levels, a dotfile, a
\* placeholder, an in-flight file, another file, a directory named like a
\* font, a Dropbox marker.
SmallEntries ==
    <<[parts |-> <<<<"a">>, <<"b", ".", "o", "t", "f">>>>, kind |-> "file"],
      [parts |-> <<<<"a", "-", "b">>, <<"c", ".", "t", "t", "f">>>>, kind |-> "file"],
      [parts |-> <<<<"x", ".", "O", "T", "F">>>>, kind |-> "file"],
      [parts |-> <<<<"a">>, <<".", "h", ".", "o", "t", "f">>>>, kind |-> "file"],
      [parts |-> <<<<"a">>, <<"d", ".", "i", "c", "l", "o", "u", "d", ".", "o", "t", "f">>>>, kind |-> "file"],
      [parts |-> <<<<"a">>, <<"e", ".", "o", "t", "f", ".", "t", "m", "p">>>>, kind |-> "file"],
      [parts |-> <<<<"a">>, <<"n", ".", "t", "x", "t">>>>, kind |-> "file"],
      [parts |-> <<<<"p", ".", "t", "t", "f">>>>, kind |-> "dir"],
      [parts |-> <<<<"a">>, <<".", "d", "r", "o", "p", "b", "o", "x">>>>, kind |-> "file"],
      [parts |-> <<<<"a">>, <<"s">>, <<"t">>, <<"u", ".", "T", "T", "F">>>>, kind |-> "file"]>>

Digit == <<"0", "1", "2", "3", "4", "5", "6", "7", "8", "9">>

\* The i-th font of a large folder.
BulkFont(i) ==
    [parts |-> <<<<"b">>,
                 <<"f", Digit[(i \div 100) + 1], Digit[((i \div 10) % 10) + 1],
                   Digit[(i % 10) + 1]>>
                 \o FontExtensions[(i % 2) + 1]>>,
     kind |-> "file"]

BulkSizes == {0, 1, 99, 100, 101, 150, 200, 201}

\* The large folder as the walk meets it: in name order or in reverse, with
\* a dotfile first.
BulkWalk(n, reversed) ==
    <<[parts |-> <<<<"b">>, <<".", "f", "0", "0", "0", ".", "o", "t", "f">>>>, kind |-> "file"]>>
    \o [i \in 1..n |-> BulkFont(IF reversed THEN n + 1 - i ELSE i)]

ScanCases ==
    {[walk |-> SelectSeq(SmallEntries, LAMBDA e : e \in S), yield_batch |-> FALSE] :
        S \in SUBSET {SmallEntries[i] : i \in 1..Len(SmallEntries)}}
    \cup {[walk |-> BulkWalk(n, r), yield_batch |-> b] :
            n \in BulkSizes, r \in BOOLEAN, b \in BOOLEAN}

NoScanCase == [walk |-> <<>>, yield_batch |-> FALSE]
ScanIdle == [phase |-> "idle", ext |-> 1, pos |-> 1, fonts |-> <<>>,
             returned |-> <<>>, yielded |-> <<>>]

ScanVarsIdle == scan_in = NoScanCase /\ scan = ScanIdle

\* scan_fonts is called on an existing directory.
ScanInit ==
    /\ scan_in \in ScanCases
    /\ scan = [ScanIdle EXCEPT !.phase = "called"]

\* yield_batch = False: _scan_fonts_all returns the list.
ScanAll ==
    /\ scan.phase = "called"
    /\ ~scan_in.yield_batch
    /\ scan' = [scan EXCEPT !.phase = "returned", !.returned = ScanFontsAll(scan_in.walk)]
    /\ UNCHANGED <<scan_in, guardVars, fmVars, cleanVars, coreVars>>

\* yield_batch = True: one turn of the inner loop of _scan_fonts_generator,
\* on the next entry rglob gives for the current extension.
GeneratorStep ==
    /\ scan.phase \in {"called", "generating"}
    /\ scan_in.yield_batch
    /\ scan.ext <= Len(FontExtensions)
    /\ LET matches == Rglob(scan_in.walk, FontExtensions[scan.ext])
       IN IF scan.pos > Len(matches)
          THEN scan' = [scan EXCEPT !.phase = "generating", !.ext = scan.ext + 1, !.pos = 1]
          ELSE LET font_path == matches[scan.pos]
                   fonts == Append(scan.fonts, font_path)
               IN IF ScanSkips(scan_in.walk, font_path)
                  THEN scan' = [scan EXCEPT !.phase = "generating", !.pos = scan.pos + 1]
                  ELSE IF Len(fonts) >= ScanBatchSize
                  THEN scan' = [scan EXCEPT !.phase = "generating", !.pos = scan.pos + 1,
                                        !.fonts = <<>>,
                                        !.yielded = Append(scan.yielded, Sorted(fonts))]
                  ELSE scan' = [scan EXCEPT !.phase = "generating", !.pos = scan.pos + 1,
                                        !.fonts = fonts]
    /\ UNCHANGED <<scan_in, guardVars, fmVars, cleanVars, coreVars>>

\* The loops are over: the remaining fonts are yielded, if any.
GeneratorEnd ==
    /\ scan.phase \in {"called", "generating"}
    /\ scan_in.yield_batch
    /\ scan.ext > Len(FontExtensions)
    /\ scan' = [scan EXCEPT !.phase = "exhausted", !.fonts = <<>>,
                        !.yielded = IF scan.fonts # <<>>
                                    THEN Append(scan.yielded, Sorted(scan.fonts))
                                    ELSE scan.yielded]
    /\ UNCHANGED <<scan_in, guardVars, fmVars, cleanVars, coreVars>>

\* ------------------------------------------ copy_font / remove_font alone

\* remove_font: @retry_on_error(max_retries=2, delay=1.0)
RemoveMaxRetries == 2
RemoveDelay == 1

\* The names a caller passes: one that get_safe_filename leaves alone and
\* one it changes.
FmNames == {"A.otf", " A.otf"}

\* The install directory before the call: missing, or holding none, one or
\* both of the files a name may stand for.
FmInstallDirs ==
    {NoInstallDir}
    \cup {[exists |-> TRUE, files |-> fl] :
            fl \in UNION {[S -> {"v1", "v2"}] : S \in SUBSET FmNames}}

\* What the environment does to one attempt of remove_font once the file is
\* resolved: nothing (the file is unlocked, or unlocks within the 10 s
\* wait), the file stays locked for the 10 s, unlink raises PermissionError,
\* unlink raises another error.
RemoveFaults == {"none", "locked", "perm", "io"}

\* The body of remove_font (font_manager.py:306-328), once: what it raises
\* or "ok", what it returns, the install directory afterwards.
RemoveFontBody(inst, name, fault) ==
    LET font_path == GetInstalledFontPath(inst, name)
    IN IF font_path = None
       THEN [outcome |-> "ok", ret |-> "False", inst |-> inst]
       ELSE IF fault = "locked"
       THEN [outcome |-> "FileLockedError", ret |-> None, inst |-> inst]
       ELSE IF fault = "perm"
       THEN [outcome |-> "TypeError", ret |-> None, inst |-> inst]
       ELSE IF fault = "io"
       THEN [outcome |-> "OSError", ret |-> None, inst |-> inst]
       ELSE [outcome |-> "ok", ret |-> "True", inst |-> RemoveFont(inst, name)]

FmCases ==
    {[op |-> "copy", name |-> n, src |-> f, inst |-> d, free |-> fr,
      faults |-> <<ft>>] :
        n \in FmNames, f \in FileStates, d \in FmInstallDirs,
        fr \in FreeChoices, ft \in Faults}
    \cup {[op |-> "remove", name |-> n, src |-> NoFile, inst |-> d, free |-> 0,
            faults |-> fts] :
            n \in FmNames, d \in FmInstallDirs,
            fts \in [1..(RemoveMaxRetries + 1) -> RemoveFaults]}

NoFmCase == [op |-> "none", name |-> "", src |-> NoFile, inst |-> NoInstallDir,
             free |-> 0, faults |-> <<>>]
FmIdle == [pc |-> "idle", inst |-> NoInstallDir, ret |-> None,
           exc |-> Exc(None, None), r |-> RetryIdle]

FmVarsIdle == fm_in = NoFmCase /\ fm = FmIdle

\* copy_font or remove_font is called.
FmInit ==
    /\ fm_in \in FmCases
    /\ fm = [FmIdle EXCEPT !.pc = "called", !.inst = fm_in.inst,
                           !.r = [RetryIdle EXCEPT !.pc = "running",
                                                   !.current_delay = RemoveDelay]]

\* copy_font(src) with validate=True and the default destination.
CallCopyFont ==
    /\ fm.pc = "called"
    /\ fm_in.op = "copy"
    /\ LET p == [dir |-> "a", name |-> fm_in.name]
           res == CopyFont([q \in {p} |-> fm_in.src], fm.inst, p, fm_in.free,
                           fm_in.faults[1])
       IN fm' = [fm EXCEPT !.pc = IF res.ok THEN "returned" ELSE "raised",
                           !.inst = res.inst,
                           !.ret = IF res.ok THEN SafeName(fm_in.name) ELSE None,
                           !.exc = res.exc]
    /\ UNCHANGED <<fm_in, guardVars, scanVars, cleanVars, coreVars>>

\* remove_font(name): one pass of the retry wrapper's loop around the body.
RemoveAttempt ==
    /\ fm.pc \in {"called", "retrying"}
    /\ fm_in.op = "remove"
    /\ LET body == RemoveFontBody(fm.inst, fm_in.name, fm_in.faults[fm.r.calls + 1])
           r == RetryAttempt(fm.r, RemoveMaxRetries, DefaultBackoff, body.outcome)
       IN fm' = [fm EXCEPT !.pc = IF r.pc = "running" THEN "retrying" ELSE r.pc,
                           !.inst = body.inst,
                           !.ret = body.ret,
                           !.exc = Exc(r.exc, None),
                           !.r = [r EXCEPT !.result = None]]
    /\ UNCHANGED <<fm_in, guardVars, scanVars, cleanVars, coreVars>>

\* ------------------------------------------------------------ clean alone

\* The file names of the clean model: two that get_safe_filename sends to
\* the same name, and a third.
CleanNames == {"A.otf", " A.otf", "B.otf"}

\* installed_fonts.items() goes through the manifest in one of these orders.
CleanOrders == {<<"A.otf", " A.otf", "B.otf">>, <<"B.otf", " A.otf", "A.otf">>}

\* clean.py:79 and 84: the two reasons ("removed from the source", "not
\* present on the system").
SourceRemoved == "source removed"
MissingLocally == "missing locally"

CleanModes == {"dry_run", "declined", "execute"}

\* One run of clean: the names of the source scan, the manifest on disk and
\* the order of its keys, the install directory, the mode, the installed
\* files whose deletion raises, how save_config ends, whether the manifest
\* can be loaded.
CleanCases ==
    {[source_font_names |-> src, installed |-> m, order |-> o, inst |-> d,
      mode |-> md, failing |-> fl, save |-> sv, loadable |-> TRUE] :
        src \in SUBSET CleanNames,
        m \in UNION {[S -> {"h1"}] : S \in SUBSET CleanNames},
        o \in CleanOrders,
        d \in {[exists |-> TRUE, files |-> f] :
                 f \in UNION {[S -> {"v1"}] : S \in SUBSET CleanNames}},
        md \in CleanModes,
        fl \in SUBSET CleanNames,
        sv \in SaveOutcomes}
NoCleanCase == [source_font_names |-> {}, installed |-> EmptyManifest,
                order |-> <<>>, inst |-> NoInstallDir, mode |-> "none",
                failing |-> {}, save |-> "ok", loadable |-> TRUE]

CleanIdle == [pc |-> "idle", config |-> EmptyManifest,
              persisted |-> [ok |-> TRUE, fonts |-> EmptyManifest],
              inst |-> NoInstallDir, fonts_to_remove |-> <<>>, i |-> 1,
              success_count |-> 0, error_count |-> 0, errors |-> <<>>,
              exit_code |-> -1]

CleanVarsIdle == cl_in = NoCleanCase /\ cl = CleanIdle

\* The clean command is started.  A mode other than execute has no
\* deletion to fail and nothing to save; an unreadable manifest is tried
\* once.
CleanInit ==
    /\ cl_in \in {c \in CleanCases :
                    c.mode # "execute" => (c.failing = {} /\ c.save = "ok")}
                \cup {[NoCleanCase EXCEPT !.mode = "execute", !.loadable = FALSE]}
    /\ cl = [CleanIdle EXCEPT !.pc = "called", !.inst = cl_in.inst,
                              !.persisted = IF cl_in.loadable
                                            THEN [ok |-> TRUE, fonts |-> cl_in.installed]
                                            ELSE Corrupt]

\* clean.py:76-84: the loop over installed_fonts.items().
MarkFonts(order, installed, source_font_names, inst) ==
    LET keys == SelectSeq(order, LAMBDA n : n \in DOMAIN installed)
        Marked(n) == n \notin source_font_names \/ ~IsFontInstalled(inst, n)
        marks == SelectSeq(keys, Marked)
    IN [k \in 1..Len(marks) |->
          <<marks[k], IF marks[k] \notin source_font_names
                      THEN SourceRemoved ELSE MissingLocally>>]

\* clean.py:28-90: the manifest is loaded, the source scanned, the names to
\* remove are listed; the command ends here when the manifest cannot be
\* loaded, is empty, or has no name to remove.
CleanClassify ==
    /\ cl.pc = "called"
    /\ IF ~cl.persisted.ok
       THEN cl' = [cl EXCEPT !.pc = "exited", !.exit_code = 1]
       ELSE LET installed_fonts == cl.persisted.fonts
                fonts_to_remove == MarkFonts(cl_in.order, installed_fonts,
                                             cl_in.source_font_names, cl.inst)
            IN cl' = [cl EXCEPT !.config = installed_fonts,
                                !.fonts_to_remove = fonts_to_remove,
                                !.pc = IF fonts_to_remove = <<>> THEN "exited" ELSE "listed",
                                !.exit_code = IF fonts_to_remove = <<>> THEN 0 ELSE -1]
    /\ UNCHANGED <<cl_in, guardVars, scanVars, fmVars, coreVars>>

\* clean.py:111-120: dry run, or the answer to the confirmation.
CleanConfirm ==
    /\ cl.pc = "listed"
    /\ IF cl_in.mode = "execute"
       THEN cl' = [cl EXCEPT !.pc = "removing"]
       ELSE cl' = [cl EXCEPT !.pc = "exited", !.exit_code = 0]
    /\ UNCHANGED <<cl_in, guardVars, scanVars, fmVars, coreVars>>

\* clean.py:136-153: one turn of the deletion loop.  remove_font raises when
\* the file it resolves cannot be deleted.
CleanRemoveOne ==
    /\ cl.pc = "removing"
    /\ cl.i <= Len(cl.fonts_to_remove)
    /\ LET font_name == cl.fonts_to_remove[cl.i][1]
           raises == /\ IsFontInstalled(cl.inst, font_name)
                     /\ GetInstalledFontPath(cl.inst, font_name) \in cl_in.failing
       IN IF raises
          THEN cl' = [cl EXCEPT !.i = @ + 1, !.error_count = @ + 1,
                                !.errors = Append(@, font_name)]
          ELSE cl' = [cl EXCEPT !.i = @ + 1, !.success_count = @ + 1,
                                !.inst = RemoveFont(cl.inst, font_name),
                                !.config = RemoveInstalledFont(cl.config, font_name)]
    /\ UNCHANGED <<cl_in, guardVars, scanVars, fmVars, coreVars>>

\* clean.py:155-174: save_config, whose failure is only printed, and the
\* report.
CleanSave ==
    /\ cl.pc = "removing"
    /\ cl.i > Len(cl.fonts_to_remove)
    /\ cl' = [cl EXCEPT !.pc = "done", !.exit_code = 0,
                        !.persisted = SaveConfig(cl.persisted, cl.config, cl_in.save)]
    /\ UNCHANGED <<cl_in, guardVars, scanVars, fmVars, coreVars>>

\* ------------------------------------------------- calculate_hash alone

\* A calculate_hash whose cache is keyed by the path alone.
CalculateHashKeyedByPath(memo, doc, content, st, use_cache, outcome) ==
    LET key == CacheKey(PA, "s1")
        got == GetHash(memo, doc, key, DefaultTtlHours, StartClock)
        hash_value == Sha256(content)
        put == SetHash(got.memo, doc, key, hash_value, StartClock, outcome)
    IN IF ~use_cache
       THEN [memo |-> memo, doc |-> doc, result |-> hash_value, computed |-> TRUE]
       ELSE IF got.result # None
       THEN [memo |-> got.memo, doc |-> doc, result |-> got.result, computed |-> FALSE]
       ELSE [memo |-> put.memo, doc |-> put.doc, result |-> hash_value, computed |-> TRUE]

\* FontManager.calculate_hash (font_manager.py:148-183) on a file that
\* exists and can be read: the cached value when get_hash has one, else the
\* digest of the content, stored with set_hash.
CalculateHashCached(memo, doc, content, st, use_cache, outcome) ==
    LET key == CacheKey(PA, st)
        got == GetHash(memo, doc, key, DefaultTtlHours, StartClock)
        hash_value == Sha256(content)
        put == SetHash(got.memo, doc, key, hash_value, StartClock, outcome)
    IN IF ~use_cache
       THEN [memo |-> memo, doc |-> doc, result |-> hash_value, computed |-> TRUE]
       ELSE IF got.result # None
       THEN [memo |-> got.memo, doc |-> doc, result |-> got.result, computed |-> FALSE]
       ELSE [memo |-> put.memo, doc |-> put.doc, result |-> hash_value, computed |-> TRUE]

NoHashCase == [use_cache |-> FALSE, called |-> FALSE]

\* The file, the cache, the value the last call returned and the one
\* before; hashed: the (st_size, st_mtime) pairs under which a call read
\* the file; known: the pair was one of them when the last call began;
\* changed: the file was written or touched since the last call; same: it
\* was not between the last two calls.
HashIdle == [content |-> "v1", st |-> "s1", memo |-> <<>>, doc |-> NoDoc,
             result |-> None, previous |-> None, hashed |-> {},
             known |-> FALSE, changed |-> FALSE, same |-> FALSE, calls |-> 0]

HashVarsIdle == hc_in = NoHashCase /\ hc = HashIdle

\* A FontManager is made, with or without cache, over an empty cache
\* directory.
HashInit ==
    /\ hc_in \in {[use_cache |-> u, called |-> TRUE] : u \in BOOLEAN}
    /\ hc \in {[HashIdle EXCEPT !.content = c] : c \in {"v1", "v2"}}

\* calculate_hash(file_path)
CallCalculateHash ==
    /\ hc_in.called
    /\ hc.calls < MaxCalls
    /\ \E outcome \in WriteOutcomes :
         LET r == CalculateHashCached(hc.memo, hc.doc, hc.content, hc.st,
                                      hc_in.use_cache, outcome)
         IN hc' = [hc EXCEPT !.memo = r.memo, !.doc = r.doc,
                             !.result = r.result, !.previous = hc.result,
                             !.known = hc.st \in hc.hashed,
                             !.hashed = IF r.computed THEN @ \cup {hc.st} ELSE @,
                             !.same = ~hc.changed,
                             !.changed = FALSE, !.calls = @ + 1]
    /\ UNCHANGED <<hc_in, importVars, lifeVars, firstUnitVars, baseVars>>

\* The file is rewritten from outside: other content, under a new
\* (st_size, st_mtime) or under the same (same length, modification time
\* kept or restored).
WriteFile ==
    /\ hc_in.called
    /\ \E c \in {"v1", "v2"} \ {hc.content}, st \in StatStates :
         hc' = [hc EXCEPT !.content = c, !.st = st, !.changed = TRUE]
    /\ UNCHANGED <<hc_in, importVars, lifeVars, firstUnitVars, baseVars>>

\* The file's modification time changes, its content does not.
TouchFile ==
    /\ hc_in.called
    /\ \E st \in StatStates \ {hc.st} :
         hc' = [hc EXCEPT !.st = st, !.changed = TRUE]
    /\ UNCHANGED <<hc_in, importVars, lifeVars, firstUnitVars, baseVars>>

\* ----------------------------------------------------------- import alone

\* A file name of the import model: "A.otf" is <<"A">>, "A_1.otf" is
\* <<"A", 1>>, the name f"{stem}_{counter}{suffix}" made from a name is the
\* name with the counter appended.
ImportNames == {<<"A">>, <<"A", 1>>}

\* Where a file is: outside the sync folder, in the sync folder itself, in a
\* sub-directory of the sync folder.
ImportDirs == {"outside", "sync", "sync/sub"}

At(dir, name) == [dir |-> dir, name |-> name]

\* The files the model draws from, in the order rglob lists them.
ImportFileOrder ==
    <<At("outside", <<"A">>), At("outside", <<"A", 1>>), At("sync", <<"A">>),
      At("sync", <<"A", 1>>), At("sync/sub", <<"A">>)>>
ImportFiles == {ImportFileOrder[i] : i \in 1..Len(ImportFileOrder)}

Absent == "none"

\* What is at a place: a file's content, or nothing there.
ContentAt(fs, at) == IF at \in DOMAIN fs THEN fs[at] ELSE Absent

\* dest_path.exists()
Exists(fs, at) == ContentAt(fs, at) # Absent

\* import_path.rglob: the files below the import path.
Below(dir, at) == at.dir = dir \/ (dir = "sync" /\ at.dir = "sync/sub")

\* The first numbered name, free or not.
FreeNameFirstNumbered(fs, name) == Append(name, 1)

\* import_fonts.py:144-149: counter = 1; while dest_path.exists(): the next
\* numbered name.
FreeName(fs, name) ==
    LET taken == {c \in 1..(Cardinality(DOMAIN fs) + 1) :
                     Exists(fs, At("sync", Append(name, c)))}
        free == CHOOSE c \in 1..(Cardinality(DOMAIN fs) + 1) :
                   /\ c \notin taken
                   /\ \A d \in 1..(c - 1) : d \in taken
    IN Append(name, free)

\* fs with content c at the place; Absent removes the file.
WriteAt(fs, at, c) ==
    LET places == IF c = Absent THEN (DOMAIN fs) \ {at} ELSE (DOMAIN fs) \cup {at}
    IN [q \in places |-> IF q = at THEN c ELSE fs[q]]

ImportCases ==
    {[fs |-> fs, import_path |-> d, move |-> mv,
      fonts_to_import |-> IF rev THEN
                             LET fwd == SelectSeq(ImportFileOrder,
                                           LAMBDA at : Exists(fs, at) /\ Below(d, at))
                             IN [i \in 1..Len(fwd) |-> fwd[Len(fwd) + 1 - i]]
                          ELSE SelectSeq(ImportFileOrder,
                                  LAMBDA at : Exists(fs, at) /\ Below(d, at))] :
        fs \in [ImportFiles -> {Absent, "v1", "v2"}], d \in ImportDirs,
        mv \in BOOLEAN, rev \in BOOLEAN}

NoImportCase == [fs |-> <<>>, import_path |-> "outside", move |-> FALSE,
                 fonts_to_import |-> <<>>]

NoStep == [did |-> "none", src |-> At("outside", <<>>), dest |-> At("sync", <<>>),
           existed |-> FALSE, content |-> Absent]

ImportIdle == [pc |-> "idle", fs |-> <<>>, i |-> 0, written |-> <<>>, moved |-> {},
               overwrote |-> FALSE, last |-> NoStep,
               success_count |-> 0, skipped_count |-> 0, error_count |-> 0]

ImportVarsIdle == im_in = NoImportCase /\ im = ImportIdle

\* import_command has collected the fonts to import (import_fonts.py:61-98)
\* and asks for confirmation.
ImportInit ==
    /\ im_in \in {c \in ImportCases : c.fonts_to_import # <<>>}
    /\ im = [ImportIdle EXCEPT !.pc = "confirm", !.fs = im_in.fs, !.i = 1]

\* import_fonts.py:104-106: Confirm.ask.
ImportConfirm ==
    /\ im.pc = "confirm"
    /\ \E yes \in BOOLEAN :
         im' = [im EXCEPT !.pc = IF yes THEN "loop" ELSE "done"]
    /\ UNCHANGED <<im_in, hashVars, lifeVars, firstUnitVars, baseVars>>

\* import_fonts.py:123-161: one font of the loop.  hashed is whether both
\* calculate_hash calls returned, copied whether the copy or move succeeded.
ImportOne ==
    /\ im.pc = "loop"
    /\ im.i <= Len(im_in.fonts_to_import)
    /\ LET font_path == im_in.fonts_to_import[im.i]
           first == At("sync", font_path.name)
           Step(did, dest, c) ==
               [did |-> did, src |-> font_path, dest |-> dest,
                existed |-> Exists(im.fs, dest), content |-> c]
       IN \E hashed \in BOOLEAN, copied \in BOOLEAN :
            LET src_content == ContentAt(im.fs, font_path)
                same == /\ hashed
                        /\ src_content # Absent
                        /\ Sha256(src_content) = Sha256(ContentAt(im.fs, first))
                dest_path == IF Exists(im.fs, first)
                             THEN At("sync", FreeName(im.fs, font_path.name))
                             ELSE first
                put == WriteAt(im.fs, dest_path, src_content)
            IN IF Exists(im.fs, first) /\ same
               THEN im' = [im EXCEPT !.i = @ + 1, !.skipped_count = @ + 1,
                                     !.last = Step("skipped", first, Absent)]
               ELSE IF ~copied \/ src_content = Absent
               THEN im' = [im EXCEPT !.i = @ + 1, !.error_count = @ + 1,
                                     !.last = Step("error", dest_path, Absent)]
               ELSE im' = [im EXCEPT
                             !.i = @ + 1, !.success_count = @ + 1,
                             !.fs = IF im_in.move THEN WriteAt(put, font_path, Absent)
                                    ELSE put,
                             !.written = WriteAt(@, dest_path, src_content),
                             !.moved = IF im_in.move THEN @ \cup {font_path} ELSE @,
                             !.overwrote = @ \/ Exists(im.fs, dest_path),
                             !.last = Step("written", dest_path, src_content)]
    /\ UNCHANGED <<im_in, hashVars, lifeVars, firstUnitVars, baseVars>>

\* import_fonts.py:163-180: the loop has ended and the counts are printed.
ImportReport ==
    /\ im.pc = "loop"
    /\ im.i > Len(im_in.fonts_to_import)
    /\ im' = [im EXCEPT !.pc = "done"]
    /\ UNCHANGED <<im_in, hashVars, lifeVars, firstUnitVars, baseVars>>

\* ------------------------------------------------- sync and clean in turn

\* A sync folder in which two names sanitize to the same installed name and
\* two directories hold a file of the same name, in scan order.
QA == [dir |-> "a", name |-> " A.otf"]
QB == [dir |-> "a", name |-> "A.otf"]
QC == [dir |-> "b", name |-> "A.otf"]
LifePathOrder == <<QA, QB, QC>>
LifePaths == {LifePathOrder[i] : i \in 1..Len(LifePathOrder)}
LifeNames == {p.name : p \in LifePaths}

\* The sync folders the model draws from; the folder stays as it is.
LifeSources ==
    {fs \in [LifePaths -> {NoFile, [content |-> "v1", cond |-> "ok"],
                                   [content |-> "v2", cond |-> "ok"]}] :
        Cardinality(Present(fs)) \in 1..MaxFiles}

\* sync.py:298-325, the two loops of do_sync from candidate k on: copy_font,
\* then add_installed_font or the error entry.  choice[k] is the free space
\* copy_font finds and the fault it meets.
RECURSIVE DoSync(_, _, _, _, _, _)
DoSync(fs, st, cands, n_new, choice, k) ==
    IF k > Len(cands) THEN st
    ELSE LET font_path == cands[k][1]
             r == CopyFont(fs, st.inst, font_path, choice[k][1], choice[k][2])
             st1 == ApplyOne(st, font_path.name, cands[k][2], k <= n_new, r)
         IN DoSync(fs,
                   [st1 EXCEPT !.inst = r.inst,
                               !.written = IF r.ok THEN @ \cup {font_path.name} ELSE @],
                   cands, n_new, choice, k + 1)

\* What a copy_font of do_sync meets: a fault on a volume with room, or no
\* fault and any free space.
CopyChoices ==
    {c \in FreeChoices \X SyncFaults :
        c[2] = "none" \/ \A free \in FreeChoices : free <= c[1]}

NoRun == [ended |-> "none", loaded |-> EmptyManifest, before |-> <<>>,
          up_to_date |-> {}, attempted |-> {}, written |-> {},
          errors |-> 0, config |-> EmptyManifest]

NoLifeCase == [source |-> <<>>]

LifeIdle == [persisted |-> [ok |-> TRUE, fonts |-> EmptyManifest],
             inst |-> NoInstallDir, status |-> <<>>,
             last |-> "none", run |-> NoRun]

LifeVarsIdle == lf_in = NoLifeCase /\ lf = LifeIdle

\* After font-sync init: an empty manifest; the fonts directory holds no
\* font of the sync folder.
LifeInit ==
    /\ lf_in \in {[source |-> fs] : fs \in LifeSources}
    /\ \E inst \in {NoInstallDir, [exists |-> TRUE, files |-> <<>>]} :
         lf = [LifeIdle EXCEPT !.inst = inst,
                               !.status = [n \in LifeNames |-> "none"]]

\* sync_command as a whole (sync.py:38-389): load, scan, classify, the disk
\* precheck, do_sync, save_config.
LifeSync ==
    /\ lf_in # NoLifeCase
    /\ LET fs == lf_in.source
           items == SelectSeq(LifePathOrder, LAMBDA p : p \in Present(fs))
           sets == ClassifySequential(fs, lf.persisted.fonts, items)
           cands == ApplyOrder(sets)
           Ran(ended) == [NoRun EXCEPT !.ended = ended,
                                       !.loaded = lf.persisted.fonts,
                                       !.before = lf.status,
                                       !.up_to_date = Range(sets.up_to_date),
                                       !.config = lf.persisted.fonts]
       IN IF ~lf.persisted.ok
          THEN lf' = [lf EXCEPT !.last = "sync",
                                !.run = [NoRun EXCEPT !.ended = "load_failed",
                                                      !.before = lf.status]]
          ELSE IF cands = <<>>
          THEN lf' = [lf EXCEPT !.last = "sync",
                                !.run = Ran("nothing_to_do")]
          ELSE \E free \in FreeChoices :
                 IF ~CheckDiskSpace(lf.inst.exists, free,
                                    WithMargin(sets.total_size_mb)).has_enough_space
                 THEN lf' = [lf EXCEPT !.last = "sync",
                                       !.run = Ran("disk_abort")]
                 ELSE \E choice \in [1..Len(cands) -> CopyChoices],
                         outcome \in SaveOutcomes :
                        LET st == DoSync(fs,
                                         [inst |-> lf.inst, config |-> lf.persisted.fonts,
                                          added_count |-> 0, updated_count |-> 0,
                                          errors |-> <<>>, written |-> {}],
                                         cands, Len(sets.sync), choice, 1)
                        IN lf' = [lf EXCEPT
                             !.last = "sync",
                             !.inst = st.inst,
                             !.persisted = SaveConfig(@, st.config, outcome),
                             !.status = [n \in LifeNames |->
                                           IF outcome = "truncated" \/ n \in st.written
                                           THEN "none" ELSE lf.status[n]],
                             !.run = [Ran("completed") EXCEPT
                                        !.attempted = {cands[k][1] : k \in 1..Len(cands)},
                                        !.written = st.written,
                                        !.errors = Len(st.errors)
                                                   + (IF outcome = "ok" THEN 0 ELSE 1),
                                        !.config = st.config]]
    /\ UNCHANGED <<lf_in, hashVars, importVars, firstUnitVars, baseVars>>

\* A file of the fonts directory is deleted from outside.  The names of the
\* manifest that are in the sync folder and were installed as this file have
\* lost their installed file.
LifeDeleteInstalled ==
    /\ lf_in # NoLifeCase
    /\ \E f \in DOMAIN lf.inst.files :
         lf' = [lf EXCEPT
                  !.last = "delete", !.run = NoRun,
                  !.inst = [@ EXCEPT !.files = [g \in (DOMAIN lf.inst.files) \ {f} |->
                                                  lf.inst.files[g]]],
                  !.status = [n \in LifeNames |->
                                IF /\ lf.persisted.ok
                                   /\ n \in DOMAIN lf.persisted.fonts
                                   /\ n \in {p.name : p \in Present(lf_in.source)}
                                   /\ GetInstalledFontPath(lf.inst, n) = f
                                THEN "deleted" ELSE lf.status[n]]]
    /\ UNCHANGED <<lf_in, hashVars, importVars, firstUnitVars, baseVars>>

\* clean_command as a whole (clean.py:22-174).  failing are the installed
\* names whose remove_font raises.
LifeClean ==
    /\ lf_in # NoLifeCase
    /\ lf.persisted.ok
    /\ LET installed == lf.persisted.fonts
           marked == FontsToRemove(lf_in.source, installed, lf.inst)
       IN \E mode \in {"dry_run", "declined", "execute"},
             failing \in SUBSET {n \in marked : IsFontInstalled(lf.inst, n)},
             outcome \in SaveOutcomes :
            IF marked = {} \/ mode # "execute"
            THEN lf' = [lf EXCEPT !.last = "clean", !.run = NoRun]
            ELSE LET done == marked \ failing
                 IN lf' = [lf EXCEPT
                      !.last = "clean", !.run = NoRun,
                      !.inst = RemoveFonts(@, done),
                      !.persisted = SaveConfig(@, RemoveInstalledFonts(installed, done),
                                               outcome),
                      !.status = [n \in LifeNames |->
                                    IF outcome = "truncated" THEN "none"
                                    ELSE IF outcome = "ok" /\ n \in done
                                    THEN (IF lf.status[n] = "deleted" THEN "cleaned"
                                          ELSE "none")
                                    ELSE lf.status[n]]]
    /\ UNCHANGED <<lf_in, hashVars, importVars, firstUnitVars, baseVars>>

MoreVarsIdle == HashVarsIdle /\ ImportVarsIdle /\ LifeVarsIdle
FirstUnitVarsIdle == GuardVarsIdle /\ ScanVarsIdle /\ FmVarsIdle /\ CleanVarsIdle
UnitVarsIdle == FirstUnitVarsIdle /\ MoreVarsIdle

AuxIdle == RetryVarsIdle /\ CacheVarsIdle /\ PbVarsIdle /\ UnitVarsIdle

\* --------------------------------------------------------- specifications

Init == SyncInit /\ StratIdle /\ AuxIdle

Next ==
    \/ SyncLoadFails
    \/ SyncNoFonts
    \/ SyncClassify
    \/ SyncNothingToDo
    \/ SyncDiskGate
    \/ SyncApply
    \/ SyncSave
    \/ SyncExit
    \/ EditSource
    \/ CleanRun

Spec == Init /\ [][Next]_vars

StrategyInit == SyncIdle /\ StratInit /\ AuxIdle

StrategyNext ==
    \/ StrategySequential
    \/ StrategyParallel
    \/ StrategySelected

SpecStrategy == StrategyInit /\ [][StrategyNext]_vars

RetrySpecInit ==
    SyncIdle /\ StratIdle /\ RetryInit /\ CacheVarsIdle /\ PbVarsIdle /\ UnitVarsIdle

RetryNext ==
    \/ RetryEnter
    \/ RetryLoop

SpecRetry == RetrySpecInit /\ [][RetryNext]_vars

CacheSpecInit ==
    SyncIdle /\ StratIdle /\ RetryVarsIdle /\ CacheInit /\ PbVarsIdle /\ UnitVarsIdle

\* The hash store and the memo under every call, a moving clock, a changing
\* file and a document written from outside.
CacheNext ==
    \/ CacheGetHash
    \/ CacheSetHash
    \/ CacheCleanupExpired
    \/ CacheClear
    \/ CacheTick
    \/ CacheFileChanges
    \/ CacheDocDamaged

SpecCache == CacheSpecInit /\ [][CacheNext]_vars

\* Both stores and the memo under the sweep.
CacheSetOneHash == CacheSetHashOf({"h1"})

SweepNext ==
    \/ CacheSetOneHash
    \/ CacheSetInfo
    \/ CacheGetHash
    \/ CacheGetInfo
    \/ CacheCleanupExpired
    \/ CacheTick
    \/ CacheFileChanges

SpecSweep == CacheSpecInit /\ [][SweepNext]_vars

\* One FontCache instance under get_hash, set_hash, clear and cleanup_expired
\* whose writes succeed, a moving clock and a changing file.
MemoNext ==
    \/ CacheGetHash
    \/ CacheSetHashWritten
    \/ CacheCleanupExpiredWritten
    \/ CacheClear
    \/ CacheTick
    \/ CacheFileChanges

SpecMemo == CacheSpecInit /\ [][MemoNext]_vars

ParallelInit == SyncIdle /\ StratIdle /\ RetryVarsIdle /\ PbInit /\ UnitVarsIdle

ParallelNext ==
    \/ SubmitBatch
    \/ WorkerRun
    \/ WorkerSave
    \/ CollectFuture
    \/ AsCompletedTimeout
    \/ ProcessBatchRaises
    \/ ProcessBatchReturns

SpecParallel == ParallelInit /\ [][ParallelNext]_vars

\* The threads of the pool and the orchestrating thread are scheduled by the
\* operating system: a step that stays possible is taken.  The timeout of
\* as_completed is no such step.
SpecParallelFair ==
    /\ ParallelInit
    /\ [][ParallelNext]_vars
    /\ WF_vars(SubmitBatch)
    /\ WF_vars(WorkerRun)
    /\ WF_vars(WorkerSave)
    /\ WF_vars(CollectFuture)
    /\ WF_vars(ProcessBatchRaises)
    /\ WF_vars(ProcessBatchReturns)

CoreIdle == SyncIdle /\ StratIdle /\ RetryVarsIdle /\ CacheVarsIdle /\ PbVarsIdle

GuardSpecInit ==
    CoreIdle /\ GuardInit /\ ScanVarsIdle /\ FmVarsIdle /\ CleanVarsIdle /\ MoreVarsIdle

GuardNext == CallGetSafeFilename \/ CallIsCloudStorageSyncing

SpecGuards == GuardSpecInit /\ [][GuardNext]_vars

ScanSpecInit ==
    CoreIdle /\ GuardVarsIdle /\ ScanInit /\ FmVarsIdle /\ CleanVarsIdle /\ MoreVarsIdle

ScanNext == ScanAll \/ GeneratorStep \/ GeneratorEnd

SpecScan == ScanSpecInit /\ [][ScanNext]_vars

FmSpecInit ==
    CoreIdle /\ GuardVarsIdle /\ ScanVarsIdle /\ FmInit /\ CleanVarsIdle /\ MoreVarsIdle

FmNext == CallCopyFont \/ RemoveAttempt

SpecFontManager == FmSpecInit /\ [][FmNext]_vars

CleanSpecInit ==
    CoreIdle /\ GuardVarsIdle /\ ScanVarsIdle /\ FmVarsIdle /\ CleanInit /\ MoreVarsIdle

CleanNext == CleanClassify \/ CleanConfirm \/ CleanRemoveOne \/ CleanSave

SpecClean == CleanSpecInit /\ [][CleanNext]_vars

HashSpecInit ==
    CoreIdle /\ FirstUnitVarsIdle /\ HashInit /\ ImportVarsIdle /\ LifeVarsIdle

HashNext == CallCalculateHash \/ WriteFile \/ TouchFile

SpecHash == HashSpecInit /\ [][HashNext]_vars

ImportSpecInit ==
    CoreIdle /\ FirstUnitVarsIdle /\ HashVarsIdle /\ ImportInit /\ LifeVarsIdle

ImportNext == ImportConfirm \/ ImportOne \/ ImportReport

SpecImport == ImportSpecInit /\ [][ImportNext]_vars

LifeSpecInit ==
    CoreIdle /\ FirstUnitVarsIdle /\ HashVarsIdle /\ ImportVarsIdle /\ LifeInit

LifeNext == LifeSync \/ LifeDeleteInstalled \/ LifeClean

SpecLife == LifeSpecInit /\ [][LifeNext]_vars

\* ------------------------------------------------------------- properties

\* C1: every scanned candidate that is neither locked nor syncing and whose
\* fingerprint was computed is in exactly one of the three sets: install when
\* its name is no manifest key, update when the manifest's hash for its name
\* differs from the fresh hash, up-to-date when the two are equal; a locked or
\* syncing candidate, or one whose fingerprinting failed, is in none.  Stated
\* for the result of each strategy.
C1_Classification ==
    \A k \in {"seq", "par", "sel"} :
      LET out == st_out[k]
      IN out # NotRun =>
           \A i \in 1..Len(st_in.items) :
             LET p == st_in.items[i]
                 f == st_in.fs[p]
                 fresh == Sha256(f.content)
                 known == p.name \in DOMAIN st_in.installed
                 as_install == {j \in 1..Len(out.sync) : out.sync[j][1] = p}
                 as_update == {j \in 1..Len(out.update) : out.update[j][1] = p}
                 as_same == {j \in 1..Len(out.up_to_date) : out.up_to_date[j] = p}
                 times == Cardinality(as_install) + Cardinality(as_update)
                          + Cardinality(as_same)
             IN IF f.cond = "ok"
                THEN /\ times = 1
                     /\ (as_install # {}) <=> ~known
                     /\ (as_update # {}) <=> (known /\ st_in.installed[p.name] # fresh)
                     /\ (as_same # {}) <=> (known /\ st_in.installed[p.name] = fresh)
                     /\ \A j \in as_install : out.sync[j][2] = fresh
                     /\ \A j \in as_update : out.update[j][2] = fresh
                ELSE times = 0

\* The selected (parallel) strategy classified a folder holding a locked
\* file, a file to update and files to install.
C1_Witness ==
    /\ st_out.sel # NotRun
    /\ UseParallel(st_in.items)
    /\ Len(st_out.sel.update) = 1
    /\ Len(st_out.sel.sync) = Len(BulkNames)
    /\ \E i \in 1..Len(st_in.items) : st_in.fs[st_in.items[i]].cond = "locked"

C3_StrategiesAgree ==
    /\ st_out.par # NotRun => st_out.par = st_out.seq
    /\ st_out.sel # NotRun => (st_out.sel = st_out.seq /\ st_out.sel = st_out.par)

\* All three ran on a folder above the threshold that holds a syncing file
\* and a file to update.
C3_Witness ==
    /\ st_out.sel # NotRun
    /\ UseParallel(st_in.items)
    /\ st_out.seq.update # <<>>
    /\ \E i \in 1..Len(st_in.items) : st_in.fs[st_in.items[i]].cond = "syncing"

\* C4 as stated: whenever the space the install and update candidates need
\* (their summed size times 1.1) exceeds the free space of the install
\* volume, the run aborts before the first copy: nothing is written to the
\* install directory and the manifest is unchanged.
C4_Original ==
    gate_short =>
        /\ pc = "done"
        /\ summary.ended = "disk_abort"
        /\ copy_ok = <<>>
        /\ install_dir = install_dir0
        /\ config = loaded
        /\ persisted = [ok |-> TRUE, fonts |-> loaded]

\* C4: when the free-space query of the install directory succeeds and the
\* space the install and update candidates need (their summed size times
\* 1.1) exceeds the free space reported, the run aborts before the first
\* copy: nothing is written to the install directory and the manifest is
\* unchanged.
C4_DiskGate ==
    (gate_short /\ disk_info.free_mb # -1) =>
        /\ pc = "done"
        /\ summary.ended = "disk_abort"
        /\ ~summary.out.success
        /\ copy_ok = <<>>
        /\ install_dir = install_dir0
        /\ config = loaded
        /\ persisted = [ok |-> TRUE, fonts |-> loaded]

\* A run was aborted by the precheck although the volume had room for the
\* candidates without the margin.
C4_Witness ==
    /\ pc = "done"
    /\ summary.ended = "disk_abort"
    /\ gate_short
    /\ disk_info.free_mb >= total_size_mb
    /\ total_size_mb > 0

\* C5 as stated: when the copy of a candidate fails, an entry naming the
\* candidate is appended to the error list, the manifest entry for that name
\* is as it was before the run, and every remaining candidate is processed.
C5_Original ==
    /\ \A i \in 1..Len(copy_ok) :
         ~copy_ok[i] =>
            LET n == Candidates[i][1].name
            IN /\ \E j \in 1..Len(errors) : errors[j][1] = n
               /\ (n \in DOMAIN config) <=> (n \in DOMAIN loaded)
               /\ n \in DOMAIN config => config[n] = loaded[n]
    /\ (pc = "done" /\ summary.ended = "completed") => Len(copy_ok) = TotalToSync

\* C5: the step in which the copy of a candidate fails appends one entry
\* naming the candidate (name, message, and a hint when there is one) to the
\* error list and leaves the manifest and the counters exactly as they were
\* immediately before the failed copy; the loop goes on, and the save step is
\* reached only when every candidate has been gone through.
C5_PartialFailure ==
    [][/\ (pc = "apply" /\ applied' = applied + 1 /\ ~copy_ok'[applied'])
          => LET n == Candidates[applied'][1].name
                 e == errors'[Len(errors')]
             IN /\ Len(errors') = Len(errors) + 1
                /\ SubSeq(errors', 1, Len(errors)) = errors
                /\ e[1] = n
                /\ e[2] = ": "
                /\ Len(e) = 3 \/ (Len(e) = 6 /\ e[4] = " (" /\ e[6] = ")")
                /\ config' = config
                /\ added_count' = added_count
                /\ updated_count' = updated_count
                /\ pc' = "apply"
       /\ (pc = "apply" /\ pc' = "done")
          => (applied = TotalToSync /\ Len(copy_ok) = TotalToSync)
      ]_vars

\* The copy of the first candidate failed, the copy of the second, of another
\* name, succeeded, and the run completed.
C5_Witness ==
    /\ pc = "done"
    /\ summary.ended = "completed"
    /\ copy_ok = <<FALSE, TRUE>>
    /\ Candidates[1][1].name # Candidates[2][1].name
    /\ Candidates[2][1].name \in DOMAIN config
    /\ Len(errors) = 1

\* C6: a name gains a manifest entry, or its entry changes, only in the sync
\* step that directly follows the successful copy of a candidate of that name
\* into the install directory, the entry being that candidate's hash; the
\* saved manifest changes only by saving the run's manifest or by a clean run
\* dropping entries.  So the manifest never has an entry written for a
\* candidate whose copy failed.
C6_ManifestFollowsCopy ==
    [][/\ \A n \in Names :
            (n \in DOMAIN config' /\ (n \notin DOMAIN config \/ config'[n] # config[n]))
            => \/ pc = "idle" /\ config' = persisted.fonts
               \/ /\ pc = "apply"
                  /\ applied' = applied + 1
                  /\ copy_ok'[applied']
                  /\ LET p == Candidates[applied'][1]
                     IN /\ p.name = n
                        /\ source[p].cond = "ok"
                        /\ config'[n] = Sha256(source[p].content)
                        /\ SafeName(n) \in DOMAIN install_dir'.files
                        /\ install_dir'.files[SafeName(n)] = source[p].content
       /\ persisted' # persisted
            => \/ pc = "apply" /\ pc' = "done"
                  /\ persisted' \in {[ok |-> TRUE, fonts |-> config], Corrupt}
               \/ /\ pc = "idle" /\ pc' = "idle"
                  /\ \/ persisted' = Corrupt
                     \/ /\ persisted'.ok
                        /\ DOMAIN persisted'.fonts \subseteq DOMAIN persisted.fonts
                        /\ \A n \in DOMAIN persisted'.fonts :
                             persisted'.fonts[n] = persisted.fonts[n]
      ]_vars

\* A run completed in which one copy failed and one succeeded: the manifest
\* has the entry of the second and none for the first.
C6_Witness ==
    /\ pc = "done"
    /\ summary.ended = "completed"
    /\ Len(copy_ok) = 2
    /\ \E i, j \in 1..2 :
         /\ ~copy_ok[i]
         /\ copy_ok[j]
         /\ Candidates[i][1].name \notin DOMAIN config
         /\ Candidates[j][1].name \in DOMAIN persisted.fonts

\* C7: when the scan found fonts and none of them is classified install or
\* update, the run ends right after classification with success true: no
\* copy is attempted, the install directory is untouched, the manifest is
\* neither changed nor saved.
C7_NothingToDo ==
    (/\ pc \in {"apply", "done"}
     /\ all_source_fonts # <<>>
     /\ fonts_to_sync = <<>>
     /\ fonts_to_update = <<>>)
        => /\ pc = "done"
           /\ summary.ended = "nothing_to_do"
           /\ summary.out = [success |-> TRUE, added |-> 0, updated |-> 0,
                             skipped |-> Len(fonts_up_to_date), errors |-> <<>>]
           /\ copy_ok = <<>>
           /\ install_dir = install_dir0
           /\ config = loaded
           /\ persisted = [ok |-> TRUE, fonts |-> loaded]

\* A run over a folder with an up-to-date font and a font that is not
\* classified ended with nothing to do.
C7_Witness ==
    /\ pc = "done"
    /\ summary.ended = "nothing_to_do"
    /\ Len(fonts_up_to_date) = 1
    /\ Len(all_source_fonts) = 2
    /\ DOMAIN install_dir.files # {}

C9_Claim ==
    (pc = "done" /\ summary.ended = "completed") =>
        LET saved == \A j \in 1..Len(summary.out.errors) :
                        Len(summary.out.errors[j]) >= 3
        IN /\ (saved /\ \E i \in 1..Len(copy_ok) : ~copy_ok[i])
                => (summary.out.success /\ summary.out.errors # <<>>)
           /\ ~saved
                => /\ summary.out.errors # <<>>
                   /\ \A i \in 1..Len(copy_ok) :
                        copy_ok[i] =>
                          SafeName(Candidates[i][1].name) \in DOMAIN install_dir.files

\* C10 as stated: a scanned file whose fingerprinting fails is left out of
\* the three sets and an error entry naming it is in the summary of the run.
C10_Claim ==
    (pc = "done" /\ summary.ended \in {"completed", "nothing_to_do"}) =>
        \A i \in 1..Len(all_source_fonts) :
          LET p == all_source_fonts[i]
          IN source[p].cond = "ioerr" =>
               /\ \A j \in 1..Len(fonts_to_sync) : fonts_to_sync[j][1] # p
               /\ \A j \in 1..Len(fonts_to_update) : fonts_to_update[j][1] # p
               /\ \A j \in 1..Len(fonts_up_to_date) : fonts_up_to_date[j] # p
               /\ \E j \in 1..Len(summary.out.errors) :
                    summary.out.errors[j][1] = p.name

\* C18 as stated: calculate_hash is attempted at most 3 times in total; when
\* every attempt fails with a transient error the waits between the attempts
\* are 0.5 s and 1 s.
C18_Original ==
    rt_in.func = "calculate_hash" =>
        /\ rt.calls <= 3
        /\ (rt.pc = "raised"
            /\ \A i \in 1..(rt_in.max_retries + 1) :
                 rt_in.script[i] \in {"OSError", "FileLockedError"})
           => rt.waits = <<1, 2>>

\* C18: calculate_hash is attempted at most 4 times in total (the first call
\* and max_retries = 3 retries); when every attempt fails with an error the
\* wrapper catches, the body is executed 4 times with waits of 0.5 s, 1 s and
\* 2 s between the attempts before the error propagates.
C18_Attempts ==
    rt_in.func = "calculate_hash" =>
        /\ rt.calls <= 4
        /\ (rt.pc = "raised"
            /\ \A i \in 1..(rt_in.max_retries + 1) :
                 rt_in.script[i] \in {"OSError", "FileLockedError", "FileNotFoundError"})
           => /\ rt.calls = 4
              /\ rt.waits = <<1, 2, 4>>
              /\ rt.exc = rt_in.script[4]

\* calculate_hash gave up on a file that was locked or unreadable at every
\* attempt.
C18_Witness ==
    /\ rt_in.func = "calculate_hash"
    /\ rt.pc = "raised"
    /\ rt.calls = 4
    /\ \A i \in 1..4 : rt_in.script[i] \in {"OSError", "FileLockedError"}
    /\ rt_in.script[1] # rt_in.script[4]

\* C19 as stated: calculate_hash on a path that does not exist fails with
\* FileNotFoundError after a single attempt and without any wait; a
\* validation failure is not retried either.
C19_Claim ==
    /\ (rt_in.func = "calculate_hash" /\ rt.calls >= 1
        /\ rt_in.script[1] = "FileNotFoundError")
       => (rt.pc = "raised" /\ rt.exc = "FileNotFoundError"
           /\ rt.calls = 1 /\ rt.waits = <<>>)
    /\ (rt.calls >= 1 /\ rt_in.script[1] = "FontValidationError")
       => (rt.pc = "raised" /\ rt.exc = "FontValidationError"
           /\ rt.calls = 1 /\ rt.waits = <<>>)

\* C20: a function wrapped with max_retries = n is called once when its first
\* call succeeds; k times when its first k-1 calls raise a retryable exception
\* and the k-th succeeds (k <= n+1), the k-th call's value being returned;
\* n+1 times when every call raises a retryable exception, the last one
\* propagating.  The wait before retry j is delay * backoff^(j-1).
C20_RetryCounts ==
    rt.pc \in {"returned", "raised"} =>
        LET n == rt_in.max_retries
            sc == rt_in.script
            Retryable(o) == o \in {"OSError", "FileLockedError", "FileNotFoundError"}
            RECURSIVE Pow(_, _)
            Pow(b, e) == IF e = 0 THEN 1 ELSE b * Pow(b, e - 1)
        IN /\ sc[1] = "ok"
                => (rt.pc = "returned" /\ rt.calls = 1 /\ rt.result = <<"result", 1>>)
           /\ \A k \in 1..(n + 1) :
                ((\A i \in 1..(k - 1) : Retryable(sc[i])) /\ sc[k] = "ok")
                    => (rt.pc = "returned" /\ rt.calls = k
                        /\ rt.result = <<"result", k>>)
           /\ (\A i \in 1..(n + 1) : Retryable(sc[i]))
                => (rt.pc = "raised" /\ rt.calls = n + 1 /\ rt.exc = sc[n + 1])
           /\ Len(rt.waits) = rt.calls - 1
           /\ \A j \in 1..Len(rt.waits) :
                rt.waits[j] = rt_in.delay * Pow(rt_in.backoff, j - 1)

\* A function wrapped with max_retries = 3, delay 1 s and backoff 3 returned
\* at its third call, after waits of 1 s and 3 s.
C20_Witness ==
    /\ rt_in.func = "generic"
    /\ rt_in.max_retries = 3
    /\ rt.pc = "returned"
    /\ rt.calls = 3
    /\ rt.waits = <<2, 6>>

\* C11: cache coherence.  get_hash called right after set_hash(path, h)
\* returns h, the last value set; get_hash returns the hash of the entry held
\* under the file's key by the memo, else by the persisted store, exactly when
\* that entry is valid, i.e. ttl <= 0 or now < timestamp + ttl, and returns no
\* hash once both entries have expired.
C11_Coherence ==
    [][LET key == <<PA, file_stat>>
           Fresh(ts) == ttl_hours <= 0 \/ clock < ts + ttl_hours
           in_memo == /\ key \in DOMAIN memory_cache
                      /\ Fresh(memory_cache[key].timestamp)
           in_doc == /\ hash_cache_file.shape = "object"
                     /\ key \in DOMAIN hash_cache_file.entries
                     /\ hash_cache_file.entries[key].timestamp # NoTimestamp
                     /\ Fresh(hash_cache_file.entries[key].timestamp)
       IN cache_last'.op = "get_hash" =>
            /\ cache_last.op = "set_hash" => cache_last'.result = cache_last.arg
            /\ in_memo => cache_last'.result = memory_cache[key].value
            /\ ~in_memo /\ in_doc =>
                 cache_last'.result = hash_cache_file.entries[key].value
            /\ ~in_memo /\ ~in_doc => cache_last'.result = None]_vars

\* get_hash has just returned no hash although the memo and the persisted
\* store both hold an entry of the file, whose TTL has elapsed.
C11_Witness ==
    LET key == <<PA, file_stat>>
    IN /\ cache_last.op = "get_hash"
       /\ cache_last.result = None
       /\ cache_last.raised = None
       /\ ttl_hours > 0
       /\ key \in DOMAIN memory_cache
       /\ clock >= memory_cache[key].timestamp + ttl_hours
       /\ hash_cache_file.shape = "object"
       /\ key \in DOMAIN hash_cache_file.entries

\* C12 as stated: while the file's size or modification time differ from those
\* at the latest set_hash, get_hash returns no hash, and an entry of the
\* persisted store under another key than the file's leaves the store only by
\* clear or by the expiry sweep.
C12_Original ==
    [][/\ (/\ cache_last'.op = "get_hash"
            /\ cache_last.set_stat # None
            /\ cache_last.set_stat # file_stat)
            => cache_last'.result = None
       /\ \A k \in CacheKeys \ {<<PA, file_stat>>} :
            (/\ hash_cache_file.shape = "object"
             /\ k \in DOMAIN hash_cache_file.entries
             /\ ~(/\ hash_cache_file'.shape = "object"
                  /\ k \in DOMAIN hash_cache_file'.entries))
            => cache_last'.op \in {"clear", "cleanup_expired", "doc_damaged"}]_vars

\* C12: cache key invalidation.  While the file's size or modification time
\* differ from those at the latest set_hash, get_hash returns no hash unless the memo or the persisted
\* store holds an entry stored earlier under the file's new size and
\* modification time; an entry of the persisted store under another key than
\* the file's leaves the store only by clear, by the expiry sweep, or by a
\* write of the document that fails after truncating it.
C12_Invalidation ==
    [][LET key == <<PA, file_stat>>
       IN /\ (/\ cache_last'.op = "get_hash"
               /\ cache_last.set_stat # None
               /\ cache_last.set_stat # file_stat
               /\ key \notin DOMAIN memory_cache
               /\ key \notin DOMAIN hash_cache_file.entries)
              => cache_last'.result = None
          /\ \A k \in CacheKeys \ {key} :
               (/\ hash_cache_file.shape = "object"
                /\ k \in DOMAIN hash_cache_file.entries
                /\ ~(/\ hash_cache_file'.shape = "object"
                     /\ k \in DOMAIN hash_cache_file'.entries))
               => \/ cache_last'.op \in {"clear", "cleanup_expired", "doc_damaged"}
                  \/ /\ cache_last'.op = "set_hash"
                     /\ hash_cache_file' = Unparseable]_vars

\* get_hash has just returned no hash for the file while the persisted store
\* still holds the entry stored under the file's former key and nothing under
\* its present one.
C12_Witness ==
    LET key == <<PA, file_stat>>
    IN /\ cache_last.op = "get_hash"
       /\ cache_last.set_stat # None
       /\ cache_last.set_stat # file_stat
       /\ cache_last.result = None
       /\ cache_last.raised = None
       /\ hash_cache_file.shape = "object"
       /\ key \notin DOMAIN hash_cache_file.entries
       /\ key \notin DOMAIN memory_cache
       /\ \E k \in CacheKeys \ {key} :
            /\ k \in DOMAIN hash_cache_file.entries
            /\ ttl_hours <= 0 \/ clock < TimestampOr0(hash_cache_file.entries[k]) + ttl_hours

\* C13 as stated: cleanup_expired returns the numbers of expired entries of
\* the two persisted stores, and after it each persisted store holds exactly
\* its previously valid entries, the memo holds no expired entry, and a valid
\* entry of the file is still returned by get_hash.
C13_Original ==
    [][LET Fresh(e) == ttl_hours <= 0 \/ clock < TimestampOr0(e) + ttl_hours
           Valid(d) == {k \in DOMAIN d : Fresh(d[k])}
           key == <<PA, file_stat>>
       IN (cache_last'.op = "cleanup_expired" /\ cache_last'.raised = None) =>
            /\ cache_last'.removed =
                 <<Cardinality(DOMAIN hash_cache_file.entries \ Valid(hash_cache_file.entries)),
                   Cardinality(DOMAIN info_cache_file.entries \ Valid(info_cache_file.entries))>>
            /\ DOMAIN hash_cache_file'.entries = Valid(hash_cache_file.entries)
            /\ \A k \in Valid(hash_cache_file.entries) :
                 hash_cache_file'.entries[k] = hash_cache_file.entries[k]
            /\ DOMAIN info_cache_file'.entries = Valid(info_cache_file.entries)
            /\ \A k \in Valid(info_cache_file.entries) :
                 info_cache_file'.entries[k] = info_cache_file.entries[k]
            /\ DOMAIN memory_cache' = Valid(memory_cache)
            /\ GetHash(memory_cache', hash_cache_file', key, ttl_hours, clock).result =
                 GetHash(memory_cache, hash_cache_file, key, ttl_hours, clock).result]_vars

\* C13: the expiry sweep.  cleanup_expired returns the numbers of expired
\* entries of the two persisted stores; after it a persisted store without
\* expired entry is as it was, a persisted store with expired entries holds
\* exactly its previously valid entries when its rewrite succeeded and is as
\* it was or unreadable when the rewrite failed; the memo holds exactly its
\* previously valid entries, and a valid entry of the file held by the memo is
\* still returned by get_hash.
C13_Sweep ==
    [][LET Fresh(e) == ttl_hours <= 0 \/ clock < TimestampOr0(e) + ttl_hours
           Valid(d) == {k \in DOMAIN d : Fresh(d[k])}
           Kept(d) == [k \in Valid(d) |-> d[k]]
           Swept(doc, doc2) ==
               IF Valid(doc.entries) = DOMAIN doc.entries
               THEN doc2 = doc
               ELSE \/ doc2 = [shape |-> "object", entries |-> Kept(doc.entries)]
                    \/ doc2 = doc
                    \/ doc2 = Unparseable
           key == <<PA, file_stat>>
       IN (cache_last'.op = "cleanup_expired" /\ cache_last'.raised = None) =>
            /\ cache_last'.removed =
                 <<Cardinality(DOMAIN hash_cache_file.entries \ Valid(hash_cache_file.entries)),
                   Cardinality(DOMAIN info_cache_file.entries \ Valid(info_cache_file.entries))>>
            /\ Swept(hash_cache_file, hash_cache_file')
            /\ Swept(info_cache_file, info_cache_file')
            /\ memory_cache' = Kept(memory_cache)
            /\ key \in Valid(memory_cache) =>
                 GetHash(memory_cache', hash_cache_file', key, ttl_hours, clock).result =
                   memory_cache[key].value]_vars

\* cleanup_expired has just removed one expired entry from each persisted
\* store and left a valid entry of the hash store in place.
C13_Witness ==
    /\ cache_last.op = "cleanup_expired"
    /\ cache_last.raised = None
    /\ cache_last.removed = <<1, 1>>
    /\ hash_cache_file.shape = "object"
    /\ Cardinality(DOMAIN hash_cache_file.entries) = 1
    /\ info_cache_file.shape = "object"

\* C14 as stated: no call of get_hash, set_hash, get_info, set_info or
\* cleanup_expired raises, whatever the persisted document contains and
\* whether or not writing it fails.
C14_Claim == cache_last.raised = None

\* C15 as stated: process_batch returns one tuple per input item, a failure
\* tuple built by the caller's error handler (or the default one) for each
\* item whose worker raised and a success tuple for every other item.
C15_Original ==
    pb.phase \in {"returned", "raised"} =>
        /\ pb.phase = "returned"
        /\ Len(pb.results) = pb_in.total
        /\ \A j \in 1..pb_in.total :
             \E k \in 1..Len(pb.results) :
               /\ pb.results[k].item = j
               /\ pb.results[k].success = (pb_in.outcome[j] = "ok")

\* C15: fault isolation.  When process_batch returns, it returns exactly one
\* tuple per input item: a failure tuple built by the caller's error handler,
\* or the default one without handler, for each item whose worker raised, and
\* a success tuple for every other item, so that the failure tuples are as
\* many as the items whose worker raised.  process_batch ends without
\* returning only when a timeout is configured and as_completed raised.
C15_FaultIsolation ==
    /\ pb.phase = "returned" =>
         /\ Len(pb.results) = pb_in.total
         /\ \A j \in 1..pb_in.total :
              /\ Cardinality({k \in 1..Len(pb.results) : pb.results[k].item = j}) = 1
              /\ \A k \in 1..Len(pb.results) :
                   pb.results[k].item = j =>
                     /\ pb.results[k].success = (pb_in.outcome[j] = "ok")
                     /\ pb.results[k].by =
                          IF pb_in.outcome[j] = "ok" THEN "process_func"
                          ELSE IF pb_in.error_handler THEN "error_handler"
                          ELSE "default"
         /\ Cardinality({k \in 1..Len(pb.results) : ~pb.results[k].success}) =
              Cardinality({j \in 1..pb_in.total : pb_in.outcome[j] = "raise"})
    /\ pb.phase \in {"timeout", "raised"} => pb_in.timeout

\* process_batch has returned three tuples, the first of them the failure
\* tuple of an item whose worker raised, the others success tuples.
C15_Witness ==
    /\ pb.phase = "returned"
    /\ Len(pb.results) = 3
    /\ ~pb.results[1].success
    /\ pb.results[1].by = "default"
    /\ pb.results[2].success
    /\ pb.results[3].success

\* C16 as stated: when process_batch ends, the progress callback has been
\* called once per item, with (1, total), (2, total), ..., (total, total).
C16_Original ==
    pb.phase \in {"returned", "raised"} =>
        pb.progress = [k \in 1..pb_in.total |-> <<k, pb_in.total>>]

\* C16: the progress callback.  The calls made so far are (1, total),
\* (2, total), ... in this order, one per future as_completed has yielded,
\* successful or failed, always with total = number of items; when
\* process_batch returns there are total of them, the last one
\* (total, total); when a configured timeout ends it they stop short of
\* total.
C16_Progress ==
    /\ \A k \in 1..Len(pb.progress) : pb.progress[k] = <<k, pb_in.total>>
    /\ Len(pb.progress) =
         Cardinality({j \in 1..pb_in.total : pb.future[j] = "yielded"})
    /\ Len(pb.progress) = Len(pb.results)
    /\ pb.phase = "returned" => Len(pb.progress) = pb_in.total
    /\ pb.phase \in {"timeout", "raised"} =>
         (pb_in.timeout /\ Len(pb.progress) < pb_in.total)

\* process_batch has returned after three calls of the callback, one of them
\* for an item whose worker raised, the last one (3, 3).
C16_Witness ==
    /\ pb.phase = "returned"
    /\ pb_in.total = 3
    /\ Len(pb.progress) = 3
    /\ pb.progress[3] = <<3, 3>>
    /\ \E k \in 1..3 : ~pb.results[k].success

\* C17 as stated: the in-process memo and the persisted cache documents are
\* mutated only by steps of the orchestrating thread, never by a worker
\* thread of the parallel executor.
C17_Claim ==
    [][(\/ memory_cache' # memory_cache
        \/ hash_cache_file' # hash_cache_file
        \/ info_cache_file' # info_cache_file)
       => pb'.thread = "orchestrator"]_vars

\* C23 as stated: is_cloud_storage_syncing(path) is true exactly when the
\* path contains '.icloud' or the file name ends in .tmp, .download, .partial
\* or '~', whatever else the parent directory holds.
C23_Claim ==
    (g_in.call = "is_cloud_storage_syncing" /\ g_out.done) =>
        g_out.syncing =
            (\/ Contains(PathStr(g_in.dir, g_in.name), ICloudMarker)
             \/ \E ind \in SyncIndicators : EndsWith(g_in.name, ind))

\* C24: get_safe_filename.  The result is not empty, holds none of the
\* characters / \ : * ? " < > |, neither starts nor ends with a space or a
\* dot, is the input when the input already is such a name, is
\* 'unnamed_font' when the input is made of spaces and dots only, and is
\* left as it is by a second application.
C24_SafeFilename ==
    (g_in.call = "get_safe_filename" /\ g_out.done) =>
        LET x == g_in.name
            y == g_out.safe_name
            IsSafe(z) == /\ z # <<>>
                         /\ \A i \in 1..Len(z) : z[i] \notin InvalidChars
                         /\ z[1] \notin {" ", "."}
                         /\ z[Len(z)] \notin {" ", "."}
        IN /\ IsSafe(y)
           /\ IsSafe(x) => y = x
           /\ (\A i \in 1..Len(x) : x[i] \in {" ", "."}) => y = UnnamedFont
           /\ GetSafeFilename(y) = y

\* get_safe_filename has turned "./ " into "_": the slash is replaced, the
\* leading dot and the trailing space are stripped.
C24_Witness ==
    /\ g_in.call = "get_safe_filename"
    /\ g_out.done
    /\ g_in.name = <<".", "/", " ">>
    /\ g_out.safe_name = <<"_">>
\* ---------------------------------------------------------------- C21, C22

IsSorted(fonts) == \A i \in 1..(Len(fonts) - 1) : PathLess(fonts[i], fonts[i + 1])
EachOnce(fonts) == \A i, j \in 1..Len(fonts) : fonts[i] = fonts[j] => i = j

\* The files of the folder the scan is to return: an accepted extension, no
\* leading dot, not flagged by is_cloud_storage_syncing.
EligibleFiles(walk) ==
    {e \in Range(walk) :
        /\ e.kind = "file"
        /\ \E x \in 1..Len(FontExtensions) : EndsWith(NameOf(e), FontExtensions[x])
        /\ NameOf(e)[1] # "."
        /\ ~IsCloudStorageSyncingOf(JoinParts(e.parts), Siblings(walk, e))}

\* C21: the non-batch scan of a folder returns exactly the eligible files of
\* the folder, at every level below it, each once, in sorted order; dotfiles
\* and placeholders are not returned.
C21_Claim ==
    scan.phase = "returned" =>
        /\ Range(scan.returned) = EligibleFiles(scan_in.walk)
        /\ EachOnce(scan.returned)
        /\ IsSorted(scan.returned)

Holds(d, n) == IF n \in DOMAIN d.files THEN d.files[n] ELSE None

\* The copy_font call got as far as the disk-space check: the source exists,
\* passed validation and was not locked.
ReachedDiskCheck ==
    /\ fm_in.op = "copy"
    /\ fm.pc \in {"returned", "raised"}
    /\ fm_in.src.cond \in {"ok", "ioerr"}
    /\ SizeMb(fm_in.src.content) # 0
    /\ fm_in.faults[1] # "locked"

\* The copy_font call got as far as shutil.copy2.
ReachedByteCopy ==
    /\ ReachedDiskCheck
    /\ fm.exc.msg # "IOError: not enough disk space"

\* C25: after copy_font failed, at whatever point, the destination path
\* holds the complete content it held before the call or, as before the
\* call, nothing; a partially written file is never left there.
C25_Claim ==
    (fm_in.op = "copy" /\ fm.pc = "raised") =>
        /\ Holds(fm.inst, SafeName(fm_in.name)) = Holds(fm_in.inst, SafeName(fm_in.name))
        /\ Holds(fm.inst, SafeName(fm_in.name)) # "partial"

\* C26: when the byte copy fails with a permission error copy_font raises
\* PermissionError carrying a hint; any other failure of the byte copy is
\* raised as a generic I/O error; remove_font raises PermissionError when
\* the deletion fails with a permission error.
C26_Claim ==
    /\ (ReachedByteCopy /\ fm.pc = "raised") =>
           IF fm_in.faults[1] = "perm"
           THEN fm.exc.msg = "PermissionError" /\ fm.exc.hint # None
           ELSE fm.exc.msg = "IOError: copy failed"
    /\ (/\ fm_in.op = "remove"
        /\ fm.pc = "raised"
        /\ fm_in.faults[fm.r.calls] = "perm") => fm.exc.msg = "PermissionError"

\* C27 as stated: whenever the volume of the destination directory has less
\* free space than 1.1 times the size of the source, copy_font raises the
\* I/O error of the disk-space check and the install directory is as before
\* the call, not even created.
C27_Original ==
    (ReachedDiskCheck /\ fm_in.free < WithMargin(SizeMb(fm_in.src.content))) =>
        /\ fm.pc = "raised"
        /\ fm.exc.msg = "IOError: not enough disk space"
        /\ fm.inst = fm_in.inst

\* C27: when the destination directory exists, so that its free space can
\* be read, and the free space is less than 1.1 times the size of the
\* source, copy_font raises the I/O error of the disk-space check and the
\* install directory is as before the call; when the directory does not
\* exist the check never fails the call.
C27_DiskCheck ==
    /\ (/\ ReachedDiskCheck
        /\ fm_in.inst.exists
        /\ fm_in.free < WithMargin(SizeMb(fm_in.src.content))) =>
           /\ fm.pc = "raised"
           /\ fm.exc.msg = "IOError: not enough disk space"
           /\ fm.inst = fm_in.inst
    /\ (ReachedDiskCheck /\ ~fm_in.inst.exists) =>
           /\ fm.exc.msg # "IOError: not enough disk space"
           /\ fm.inst.exists

\* A copy was refused although the volume had room for the file itself, but
\* not for the margin.
C27_Witness ==
    /\ ReachedDiskCheck
    /\ fm_in.inst.exists
    /\ fm_in.free >= SizeMb(fm_in.src.content)
    /\ fm_in.free < WithMargin(SizeMb(fm_in.src.content))
    /\ fm.exc.msg = "IOError: not enough disk space"
    /\ fm.inst = fm_in.inst

\* C28: remove_font looks for the sanitized name first and the raw name
\* second.  When neither exists it returns False after one call and changes
\* nothing.  When the file found is unlocked, at once or at a retry after
\* attempts that found it locked, it is deleted, True is returned, the
\* path no longer exists and no other file is touched.  When it stays
\* locked through every attempt FileLockedError is raised and the install
\* directory is unchanged.
C28_Remove ==
    (fm_in.op = "remove" /\ fm.pc \in {"returned", "raised"}) =>
        LET d == fm_in.inst
            safe_name == SafeName(fm_in.name)
            at == IF safe_name \in DOMAIN d.files THEN safe_name
                  ELSE IF fm_in.name \in DOMAIN d.files THEN fm_in.name
                  ELSE None
            n == RemoveMaxRetries + 1
            Unlocked(k) == /\ fm_in.faults[k] = "none"
                           /\ \A j \in 1..(k - 1) : fm_in.faults[j] = "locked"
        IN /\ at = None =>
                /\ fm.pc = "returned" /\ fm.ret = "False"
                /\ fm.inst = d
                /\ fm.r.calls = 1
           /\ (at # None /\ \E k \in 1..n : Unlocked(k)) =>
                /\ fm.pc = "returned" /\ fm.ret = "True"
                /\ at \notin DOMAIN fm.inst.files
                /\ \A f \in (DOMAIN d.files) \ {at} : Holds(fm.inst, f) = d.files[f]
           /\ (at # None /\ \A k \in 1..n : fm_in.faults[k] = "locked") =>
                /\ fm.pc = "raised" /\ fm.exc.msg = "FileLockedError"
                /\ fm.inst = d
                /\ fm.r.calls = n

\* A name whose sanitized form differs was removed while both files were
\* installed: the sanitized one is gone, the raw one is still there; the
\* file was locked at the first attempt.
C28_Witness ==
    /\ fm_in.op = "remove"
    /\ fm.pc = "returned"
    /\ fm.ret = "True"
    /\ fm_in.name # SafeName(fm_in.name)
    /\ {fm_in.name, SafeName(fm_in.name)} \subseteq DOMAIN fm_in.inst.files
    /\ DOMAIN fm.inst.files = {fm_in.name}
    /\ fm_in.faults[1] = "locked"

\* ---------------------------------------------------------------- C29, C30

\* The names and reasons of fonts_to_remove.
MarkedNames == {cl.fonts_to_remove[k][1] : k \in 1..Len(cl.fonts_to_remove)}
ReasonOf(n) ==
    LET k == CHOOSE k \in 1..Len(cl.fonts_to_remove) : cl.fonts_to_remove[k][1] = n
    IN cl.fonts_to_remove[k][2]

\* A file for the name exists in the install directory d, under the
\* sanitized name or under the name itself.
HasFile(d, n) == SafeName(n) \in DOMAIN d.files \/ n \in DOMAIN d.files

Classified == cl.pc \in {"listed", "removing", "done", "exited"} /\ cl_in.loadable

\* C29: once clean has listed the names to remove, a manifest name is listed
\* iff it is absent from the source scan, with the reason "source removed"
\* whether or not it is installed, or it is in the source scan and no file
\* for it exists in the install directory, with the reason "missing
\* locally"; a name in the source and installed is not listed, no name is
\* listed twice and nothing but manifest names is listed.
C29_Classification ==
    Classified =>
        /\ MarkedNames \subseteq DOMAIN cl_in.installed
        /\ \A j, k \in 1..Len(cl.fonts_to_remove) :
              cl.fonts_to_remove[j][1] = cl.fonts_to_remove[k][1] => j = k
        /\ \A n \in DOMAIN cl_in.installed :
              /\ n \in MarkedNames <=>
                    \/ n \notin cl_in.source_font_names
                    \/ (n \in cl_in.source_font_names /\ ~HasFile(cl_in.inst, n))
              /\ (n \in cl_in.source_font_names /\ HasFile(cl_in.inst, n))
                    => n \notin MarkedNames
              /\ n \notin cl_in.source_font_names => ReasonOf(n) = SourceRemoved
              /\ (n \in cl_in.source_font_names /\ ~HasFile(cl_in.inst, n))
                    => ReasonOf(n) = MissingLocally

\* Both reasons were given in one run, one of the names absent from the
\* source being installed, and a third name was not listed; one of the
\* names is found installed under its sanitized name only.
C29_Witness ==
    /\ cl.pc = "listed"
    /\ \E a, b, c \in DOMAIN cl_in.installed :
          /\ a \in MarkedNames /\ ReasonOf(a) = SourceRemoved /\ HasFile(cl_in.inst, a)
          /\ b \in MarkedNames /\ ReasonOf(b) = MissingLocally
          /\ c \notin MarkedNames
          /\ c \notin DOMAIN cl_in.inst.files

\* C30: a dry run and a declined confirmation leave the manifest, in memory
\* and on disk, and the install directory as they were.  After the deletion
\* loop of an executed run every listed name whose deletion was not needed
\* or succeeded is out of the manifest, every listed name whose deletion
\* failed has its manifest entry and its installed file, and every name not
\* listed has its manifest entry and its installed file as before the run.
C30_Claim ==
    /\ (cl.pc = "exited" /\ cl_in.loadable) =>
           /\ cl.persisted = [ok |-> TRUE, fonts |-> cl_in.installed]
           /\ cl.inst = cl_in.inst
    /\ cl.pc = "done" =>
           \A n \in DOMAIN cl_in.installed :
              LET failed == \E k \in 1..Len(cl.errors) : cl.errors[k] = n
              IN IF n \notin MarkedNames
                 THEN /\ n \in DOMAIN cl.config /\ cl.config[n] = cl_in.installed[n]
                      /\ Holds(cl.inst, n) = Holds(cl_in.inst, n)
                      /\ Holds(cl.inst, SafeName(n)) = Holds(cl_in.inst, SafeName(n))
                 ELSE IF failed
                 THEN /\ n \in DOMAIN cl.config /\ cl.config[n] = cl_in.installed[n]
                      /\ HasFile(cl.inst, n)
                 ELSE n \notin DOMAIN cl.config

\* ---------------------------------------------------------------------- C31

\* C31: whatever happens during save_config, a failure in the middle of the
\* write included, the manifest document on disk is a complete one, the
\* previous or the new: it is never left empty or truncated.
C31_Claim == persisted.ok

\* ---------------------------------------------------------------------- C32

\* C32 as stated: with the cache enabled as well as disabled, the value
\* calculate_hash returns is the hash of the file's content at the time of
\* the call.
C32_Original == (hc.calls > 0 /\ ~hc.changed) => hc.result = Sha256(hc.content)

\* C32: a call that follows another with the file neither written nor
\* touched in between returns the same value; with the cache disabled, and
\* with the cache enabled when the file's (st_size, st_mtime) is not one
\* under which an earlier call hashed it, the value returned is the hash of
\* the file's current content.
C32_Determinism ==
    (hc.calls > 0 /\ ~hc.changed) =>
        /\ (hc.calls > 1 /\ hc.same) => hc.result = hc.previous
        /\ ~hc_in.use_cache => hc.result = Sha256(hc.content)
        /\ (hc_in.use_cache /\ ~hc.known) => hc.result = Sha256(hc.content)

\* With the cache enabled the file was rewritten under a new (st_size,
\* st_mtime) between two calls and the second call returned the new hash.
C32_Witness ==
    /\ hc_in.use_cache
    /\ hc.calls = 2
    /\ ~hc.changed
    /\ ~hc.known
    /\ hc.previous # None
    /\ hc.result # hc.previous
    /\ hc.result = Sha256(hc.content)

\* ---------------------------------------------------------------------- C33

\* The candidates of the list are met in the order of the scan.
InScanOrder(list) ==
    LET paths == [j \in 1..Len(list) |-> list[j][1]]
    IN paths = SelectSeq(st_in.items, LAMBDA q : q \in Range(paths))

\* C33: whichever strategy classified, and whatever the order in which the
\* parallel hashing tasks completed, do_sync copies every install candidate
\* before any update candidate, the candidates of each set in the order of
\* the source scan, and the order is the same for the sequential and the
\* parallel strategy.
C33_ApplyOrder ==
    /\ \A r \in {st_out.seq, st_out.par, st_out.sel} :
          r # NotRun =>
             /\ InScanOrder(r.sync) /\ InScanOrder(r.update)
             /\ \A j \in 1..Len(ApplyOrder(r)) :
                   (j <= Len(r.sync)) <=>
                      DiffAction(st_in.installed, ApplyOrder(r)[j][1].name,
                                 ApplyOrder(r)[j][2]) = "install"
    /\ st_out.par # NotRun => ApplyOrder(st_out.par) = ApplyOrder(st_out.seq)
    /\ st_out.sel # NotRun => ApplyOrder(st_out.sel) = ApplyOrder(st_out.seq)

\* The parallel strategy ran on a folder above the threshold and found
\* candidates to install as well as candidates to update.
C33_Witness ==
    /\ st_out.par # NotRun
    /\ UseParallel(st_in.items)
    /\ Len(st_out.par.sync) > 1
    /\ st_out.par.update # <<>>

\* ---------------------------------------------------------------------- C34

\* The futures submitted and not yet yielded by as_completed.
InFlight == {j \in 1..pb_in.total : pb.future[j] \in {"queued", "saving", "result", "exception"}}

\* The futures a thread of the pool is working on.
Running == {j \in 1..pb_in.total : pb.future[j] = "saving"}

\* The first item of the chunk of item j.
ChunkStart(j) == ((j - 1) \div pb_in.chunk_size) * pb_in.chunk_size + 1

\* C34: in process_batch at most chunk_size futures are submitted and not
\* yet collected, at most max_workers of them run at once, no item of a
\* chunk is submitted before every item of the chunks before it was
\* collected, and without a timeout process_batch returns.
C34_BoundedInFlight ==
    /\ [](/\ Cardinality(InFlight) <= pb_in.chunk_size
          /\ Cardinality(Running) <= MaxWorkers
          /\ \A j \in 1..pb_in.total :
                pb.future[j] # "none" =>
                   \A k \in 1..(ChunkStart(j) - 1) : pb.future[k] = "yielded")
    /\ (pb.phase = "submit" /\ ~pb_in.timeout) ~> (pb.phase = "returned")

\* process_batch has returned from three items in chunks of two, with no
\* timeout set.
C34_Witness ==
    /\ pb.phase = "returned"
    /\ ~pb_in.timeout
    /\ pb_in.chunk_size = 2
    /\ pb_in.total = MaxItems
    /\ Len(pb.results) = MaxItems

\* ---------------------------------------------------------------------- C35

\* C35: for every completion order of the workers, the mapping returned by
\* calculate_hashes_parallel has exactly the input paths as its keys; a path
\* whose hash function returned maps to that hash, a path whose hash
\* function raised maps to None.
C35_HashMapping ==
    st_out.par # NotRun =>
       \A order \in CompletionOrders(Len(st_in.items)) :
          LET hash_dict == CalculateHashesParallel(st_in.fs, st_in.items, order)
          IN /\ DOMAIN hash_dict = Range(st_in.items)
             /\ \A q \in Range(st_in.items) :
                   hash_dict[q] = IF CalculateHash(st_in.fs, q).raised THEN None
                                  ELSE Sha256(st_in.fs[q].content)

\* The parallel strategy ran on paths of which one was hashed and one raised.
C35_Witness ==
    /\ st_out.par # NotRun
    /\ \E q, r \in Range(st_in.items) :
          /\ CalculateHash(st_in.fs, q).raised
          /\ ~CalculateHash(st_in.fs, r).raised

\* ---------------------------------------------------------------------- C36

\* C36 as stated: when process_batch has returned and every fingerprint
\* succeeded, hash_cache.json holds an entry for each of the files, whatever
\* the interleaving of the workers' load and save steps in set_hash.
C36_Claim ==
    (/\ pb.phase = "returned"
     /\ \A k \in 1..Len(pb.results) : pb.results[k].success) =>
        /\ LoadCacheFile(hash_cache_file).type = "dict"
        /\ \A j \in 1..pb_in.total :
              CacheKey(j, file_stat) \in DOMAIN LoadCacheFile(hash_cache_file).entries

\* ---------------------------------------------------------------------- C38

\* Every key of the memo is a key of hash_cache.json with the same hash.
MemoWithinStore ==
    \A k \in DOMAIN memory_cache :
       /\ k \in DOMAIN LoadCacheFile(hash_cache_file).entries
       /\ LoadCacheFile(hash_cache_file).entries[k].value = memory_cache[k].value

\* C38: in one FontCache instance, after any sequence of get_hash, set_hash,
\* clear and cleanup_expired calls whose writes succeed, every key of the
\* memo is a key of the persisted hash store and has the same hash there;
\* get_hash leaves the persisted stores as they are.
C38_MemoWithinStore ==
    /\ []MemoWithinStore
    /\ [][cache_last'.op = "get_hash" =>
            /\ hash_cache_file' = hash_cache_file
            /\ info_cache_file' = info_cache_file]_vars

\* cleanup_expired has removed an expired entry from the store and from the
\* memo while an entry under the file's other key stays in both.
C38_Witness ==
    /\ cache_last.op = "cleanup_expired"
    /\ cache_last.removed = <<1, 0>>
    /\ Cardinality(DOMAIN memory_cache) = 1
    /\ DOMAIN LoadCacheFile(hash_cache_file).entries = DOMAIN memory_cache

\* ---------------------------------------------------------------------- C37

\* The files of the sync folder that carry the name.
Named(n) == {p \in Present(lf_in.source) : p.name = n}

\* C37 as stated: once the installed file of a name was deleted from outside,
\* with its source and manifest entry as they were, every later sync
\* classifies the font up-to-date and does not copy it.
C37_Original ==
    lf.last = "sync" =>
       \A n \in LifeNames :
          lf.run.before[n] = "deleted" =>
             \A p \in Named(n) : p \in lf.run.up_to_date /\ p \notin lf.run.attempted

\* C37: once the installed file of a name was deleted from outside, every
\* later sync classifies each source file of that name whose hash is the
\* manifest's up-to-date and does not copy it, whatever the fonts directory
\* holds; a source file of the name is copied again only when its hash is
\* not the manifest's or after a clean run in execute mode has removed the
\* entry, and then a sync that gets to its copies does copy it.
C37_ManifestOnly ==
    lf.last = "sync" =>
       \A n \in LifeNames : \A p \in Named(n) :
          /\ (/\ lf.run.before[n] = "deleted"
              /\ Sha256(lf_in.source[p].content) = lf.run.loaded[n])
                => p \in lf.run.up_to_date /\ p \notin lf.run.attempted
          /\ (lf.run.before[n] = "deleted" /\ p \in lf.run.attempted)
                => Sha256(lf_in.source[p].content) # lf.run.loaded[n]
          /\ (lf.run.before[n] = "cleaned" /\ lf.run.ended = "completed")
                => p \in lf.run.attempted

\* A sync has copied a font again whose installed file had been deleted from
\* outside and whose manifest entry a clean run had then removed.
C37_Witness ==
    /\ lf.last = "sync"
    /\ \E n \in LifeNames :
          /\ lf.run.before[n] = "cleaned"
          /\ n \in lf.run.written
          /\ IsFontInstalled(lf.inst, n)

\* ---------------------------------------------------------------------- C39

\* C39 as stated: at the end of a sync run with an empty error list, for
\* every name whose manifest entry was written in the run, the file found in
\* the fonts directory for the name (sanitized name, then raw name) has the
\* content whose hash is the manifest entry's, also when source files share
\* a file name or sanitize to the same installed name.
C39_Claim ==
    (lf.last = "sync" /\ lf.run.ended = "completed" /\ lf.run.errors = 0) =>
       \A n \in lf.run.written :
          /\ GetInstalledFontPath(lf.inst, n) # None
          /\ Sha256(lf.inst.files[GetInstalledFontPath(lf.inst, n)]) = lf.run.config[n]

\* ---------------------------------------------------------------------- C40

\* The files the sync folder held when the import began.
PresentBefore == {at \in ImportFiles : at.dir # "outside" /\ Exists(im_in.fs, at)}

\* C40 as stated: every file present in the sync folder before the import,
\* or written earlier in the same import, keeps its content.
C40_Original ==
    /\ \A at \in PresentBefore : ContentAt(im.fs, at) = im_in.fs[at]
    /\ \A at \in DOMAIN im.written : ContentAt(im.fs, at) = im.written[at]

\* C40: the import writes only where no file is.  A font whose name exists
\* in the sync folder with the same hash is skipped; with another hash, or
\* when a hash cannot be computed, it is written under the first free
\* numbered name.  Every file the sync folder held before the import, or
\* written earlier in it, keeps its content, except that a font of the sync
\* folder that is itself imported with --move leaves its place.
C40_NoOverwrite ==
    /\ ~im.overwrote
    /\ \A at \in PresentBefore \ im.moved : ContentAt(im.fs, at) = im_in.fs[at]
    /\ \A at \in PresentBefore \cap im.moved : ~Exists(im.fs, at) \/ at \in DOMAIN im.written
    /\ \A at \in DOMAIN im.written : ContentAt(im.fs, at) = im.written[at]
    /\ im.last.did = "skipped" =>
          /\ im.last.existed
          /\ Sha256(ContentAt(im.fs, im.last.src)) = Sha256(ContentAt(im.fs, im.last.dest))
    /\ im.last.did = "written" =>
          /\ ~im.last.existed
          /\ im.last.dest.dir = "sync"
          /\ \/ im.last.dest.name = im.last.src.name
             \/ \E c \in 1..Cardinality(DOMAIN im.fs) :
                  /\ im.last.dest.name = Append(im.last.src.name, c)
                  /\ \A d \in 1..(c - 1) :
                        Exists(im.fs, At("sync", Append(im.last.src.name, d)))
                  /\ \/ Exists(im.fs, At("sync", im.last.src.name))
                     \/ (im_in.move /\ im.last.src = At("sync", im.last.src.name))

\* A font from outside was written as A_1_1.otf because the sync folder
\* held another A_1.otf, and the files the folder held are as they were.
C40_Witness ==
    /\ im.last.did = "written"
    /\ im.last.src.dir = "outside"
    /\ im.last.dest = At("sync", <<"A", 1, 1>>)
    /\ Exists(im_in.fs, At("sync", <<"A", 1>>))
    /\ ContentAt(im.fs, At("sync", <<"A", 1>>)) = im_in.fs[At("sync", <<"A", 1>>)]
    /\ ContentAt(im.fs, At("sync", <<"A", 1>>)) # im.last.content

====
